---- MODULE Spec2Model ----
(***************************************************************************)
(* A model of the agent orchestration core of backend/simple_agent.py:     *)
(* the command safety gate, the command router of process_request, the     *)
(* plan executor and the chat history / memory store.                      *)
(*                                                                         *)
(* Texts are sequences of strings.  A text typed by a user or produced by  *)
(* a model is a sequence of one-character strings; a text produced by the  *)
(* program is the concatenation of its literal chunks (one string each)    *)
(* and of the texts interpolated into it, as the f-strings build it.       *)
(***************************************************************************)
EXTENDS Integers, Sequences, FiniteSets, TLC

\* ------------------------------------------------------------------ bounds
\* Requests served by one session in a behaviour.
MaxRequests == 3
\* Largest max_history a persisted memory file configures in the model.
MaxHistoryCfg == 2
\* Commands of up to this length are enumerated exhaustively for the gate.
MaxCmdLen == 4

\* ------------------------------------------------------- program constants
\* int(self.memory.get("max_history", 20))
DefaultMaxHistory == 20
\* self.chat_history[-30:] in save_memory
SavedHistoryLimit == 30

\* -------------------------------------------------------------------- text
\* Python's None; str(None) is "None", one chunk no typed text contains.
NoneVal == <<"None">>

Whitespace == {" ", "\t", "\n"}

UpperAlpha == <<"A","B","C","D","E","F","G","H","I","J","K","L","M",
                "N","O","P","Q","R","S","T","U","V","W","X","Y","Z">>
LowerAlpha == <<"a","b","c","d","e","f","g","h","i","j","k","l","m",
                "n","o","p","q","r","s","t","u","v","w","x","y","z">>

\* str.lower() on one character.
LowerChar(c) ==
    IF \E i \in 1..26 : UpperAlpha[i] = c
    THEN LowerAlpha[CHOOSE i \in 1..26 : UpperAlpha[i] = c]
    ELSE c

\* str.lower()
Lower(s) == [i \in 1..Len(s) |-> LowerChar(s[i])]

\* s[n:] of Python, n >= 0
Drop(s, n) == IF n >= Len(s) THEN <<>> ELSE SubSeq(s, n + 1, Len(s))

\* s[-n:] of Python for an integer n: n = 0 is s[0:], the whole sequence, and a
\* negative n is s[k:] with k = -n.
LastSlice(s, n) ==
    IF n > 0 THEN (IF n >= Len(s) THEN s ELSE SubSeq(s, Len(s) - n + 1, Len(s)))
    ELSE Drop(s, 0 - n)

RECURSIVE LStrip(_)
LStrip(s) == IF s # <<>> /\ Head(s) \in Whitespace THEN LStrip(Tail(s)) ELSE s

RECURSIVE RStrip(_)
RStrip(s) ==
    IF s # <<>> /\ s[Len(s)] \in Whitespace THEN RStrip(SubSeq(s, 1, Len(s) - 1)) ELSE s

\* str.strip()
Strip(s) == RStrip(LStrip(s))

\* str.startswith(p)
StartsWith(s, p) == Len(p) <= Len(s) /\ SubSeq(s, 1, Len(p)) = p

\* str.split(): the maximal runs of non-whitespace characters, in order.
RECURSIVE SplitFrom(_, _, _)
SplitFrom(s, word, acc) ==
    IF s = <<>> THEN (IF word = <<>> THEN acc ELSE Append(acc, word))
    ELSE IF Head(s) \in Whitespace
         THEN SplitFrom(Tail(s), <<>>, IF word = <<>> THEN acc ELSE Append(acc, word))
         ELSE SplitFrom(Tail(s), Append(word, Head(s)), acc)

Split(s) == SplitFrom(s, <<>>, <<>>)

\* str.split(maxsplit=1): the first word and the rest, the rest stripped on the
\* left only (trailing whitespace stays).
Split1(s) ==
    LET t == LStrip(s)
        n == IF \E i \in 1..Len(t) : t[i] \in Whitespace
             THEN CHOOSE i \in 1..Len(t) :
                      t[i] \in Whitespace /\ \A j \in 1..(i - 1) : t[j] \notin Whitespace
             ELSE Len(t) + 1
        rest == LStrip(Drop(t, n - 1))
    IN  IF t = <<>> THEN <<>>
        ELSE IF rest = <<>> THEN <<SubSeq(t, 1, n - 1)>>
        ELSE <<SubSeq(t, 1, n - 1), rest>>

Range(f) == {f[i] : i \in DOMAIN f}

\* All sequences over S of length at most n.
RECURSIVE SeqsUpTo(_, _)
SeqsUpTo(S, n) ==
    IF n = 0 THEN {<<>>}
    ELSE LET shorter == SeqsUpTo(S, n - 1)
         IN  shorter \cup {Append(t, c) : t \in shorter, c \in S}

\* ---------------------------------------------------------- safety gate
\* self.allowed_command_prefixes
allowed_command_prefixes == <<
    <<"d","i","r">>,
    <<"t","y","p","e">>,
    <<"p","y","t","h","o","n"," ","-","m"," ","h","t","t","p",".","s","e","r","v","e","r">>,
    <<"p","y","t","h","o","n"," ","-","c">>,
    <<"p","y"," ","-","m"," ","h","t","t","p",".","s","e","r","v","e","r">>,
    <<"p","i","p"," ","s","h","o","w">>,
    <<"p","i","p"," ","l","i","s","t">>,
    <<"o","l","l","a","m","a"," ","l","i","s","t">> >>

\* The for loop of _is_command_allowed from prefix i on: the first match returns
\* True, the end of the list returns False.
RECURSIVE AllowedFrom(_, _)
AllowedFrom(cmd, i) ==
    IF i > Len(allowed_command_prefixes) THEN FALSE
    ELSE IF StartsWith(cmd, Lower(allowed_command_prefixes[i])) THEN TRUE
    ELSE AllowedFrom(cmd, i + 1)

\* A gate that forgets to lowercase the command.
IsCommandAllowedCaseSensitive(command) ==
    LET cmd == Strip(IF command = NoneVal THEN <<>> ELSE command)
    IN  IF cmd = <<>> THEN FALSE ELSE AllowedFrom(cmd, 1)

\* SimpleAgent._is_command_allowed
IsCommandAllowed(command) ==
    LET cmd == Lower(Strip(IF command = NoneVal THEN <<>> ELSE command))
    IN  IF cmd = <<>> THEN FALSE ELSE AllowedFrom(cmd, 1)


\* --------------------------------------------------------- router keywords
kwModels == <<"/", "m", "o", "d", "e", "l", "s">>
kwModelList == <<"/", "m", "o", "d", "e", "l", " ", "l", "i", "s", "t">>
kwModelSp == <<"/", "m", "o", "d", "e", "l", " ">>
kwShow == <<"s", "h", "o", "w">>
kwCurrent == <<"c", "u", "r", "r", "e", "n", "t">>
kwPlanner == <<"/", "p", "l", "a", "n", "n", "e", "r">>
kwPlannerShow == <<"/", "p", "l", "a", "n", "n", "e", "r", " ", "s", "h", "o", "w">>
kwPlannerSp == <<"/", "p", "l", "a", "n", "n", "e", "r", " ">>
kwRememberSp == <<"/", "r", "e", "m", "e", "m", "b", "e", "r", " ">>
kwMemories == <<"/", "m", "e", "m", "o", "r", "i", "e", "s">>
kwServe == <<"/", "s", "e", "r", "v", "e">>
kwStop == <<"s", "t", "o", "p">>
kwPwd == <<"/", "p", "w", "d">>
kwCwd == <<"/", "c", "w", "d">>
kwFiles == <<"/", "f", "i", "l", "e", "s">>
kwOpenSp == <<"/", "o", "p", "e", "n", " ">>
kwConfirm == <<"/", "c", "o", "n", "f", "i", "r", "m">>
kwCancel == <<"/", "c", "a", "n", "c", "e", "l">>
kwRunSp == <<"/", "r", "u", "n", " ">>
kwSearchSp == <<"/", "s", "e", "a", "r", "c", "h", " ">>

\* The if-chain of process_request, in its order: the branch that handles the
\* input, "plan" when no directive matches.
RouteOf(user_input) ==
    LET l == Lower(Strip(user_input))
    IN  IF l \in {kwModels, kwModelList} THEN "models"
        ELSE IF StartsWith(l, kwModelSp) THEN "model"
        ELSE IF l \in {kwPlanner, kwPlannerShow} THEN "planner_show"
        ELSE IF StartsWith(l, kwPlannerSp) THEN "planner"
        ELSE IF StartsWith(l, kwRememberSp) THEN "remember"
        ELSE IF StartsWith(l, kwMemories) THEN "memories"
        ELSE IF StartsWith(l, kwServe) THEN "serve"
        ELSE IF l \in {kwPwd, kwCwd} THEN "pwd"
        ELSE IF StartsWith(l, kwFiles) THEN "files"
        ELSE IF StartsWith(l, kwOpenSp) THEN "open"
        ELSE IF l = kwConfirm THEN "confirm"
        ELSE IF l = kwCancel THEN "cancel"
        ELSE IF StartsWith(l, kwRunSp) THEN "run"
        ELSE IF StartsWith(l, kwSearchSp) THEN "search"
        ELSE "plan"

\* ------------------------------------------------------------------ state
VARIABLES
    memory,                  \* self.memory: the dict loaded from agent_memory.json
    chat_history,            \* self.chat_history
    max_history,             \* self.max_history
    model_name,              \* self.model_name
    planner_model_name,      \* self.planner_model_name
    tavily_api_key,          \* self.tavily_api_key, NoneVal when not configured
    chroma_available,        \* self._chroma_collection is not None
    rag_docs,                \* the documents of the chat_memory collection
    server_process,          \* self._server_process: NoHandle, or the process Popen returned
    processes,               \* the server processes that are alive (poll() is None)
    pending_command,         \* self._pending_command
    pending_command_reason,  \* self._pending_command_reason
    nreq,                    \* requests served so far
    last,                    \* what the last request did (its input, branch, result, effects)
    canceled,                \* commands canceled by /cancel and not queued again since
    gate_cmd,                \* the argument of a call of _is_command_allowed
    gate_result,             \* the values it has returned: none, or one
    plan_in,                 \* a planner output and the outcomes of the collaborators
    plan_out,                \* what the planning path made of it: none, or one
    threads,                 \* the executor's worker threads inside process_request
    log,                     \* every entry appended to the history, in order
    memory_file,             \* what agent_memory.json holds
    session,                 \* "none" before __init__, "up" after it, "crashed" where it raised
    llm,                     \* the model self.llm was constructed for
    planner_llm,             \* the model self.planner_llm was constructed for
    tool_req,                \* a request to the tool server and the configuration it runs under
    tool_resp                \* the tool server's responses to it: none, or one

vars == <<memory, chat_history, max_history, model_name, planner_model_name,
          tavily_api_key, chroma_available, rag_docs, server_process,
          processes, pending_command, pending_command_reason, nreq, last, canceled,
          gate_cmd, gate_result, plan_in, plan_out, threads, log, memory_file, session,
          llm, planner_llm, tool_req, tool_resp>>

\* The variables of the gate and the planning path on their own, and of the
\* worker threads.
gateVars == <<gate_cmd, gate_result>>
toolVars == <<tool_req, tool_resp>>
planVars == <<plan_in, plan_out>>
askVars == <<threads, log>>
bootVars == <<memory_file, session>>
llmVars == <<llm, planner_llm>>

\* self._server_process = None
NoHandle == 0

\* dict.get(key, default)
Get(m, key, default) == IF key \in DOMAIN m THEN m[key] ELSE default

\* m[key] = value
Put(m, key, value) == [k \in DOMAIN m \cup {key} |-> IF k = key THEN value ELSE m[k]]

\* a or b, for texts: None and the empty text are falsy
Or(a, b) == IF a = NoneVal \/ a = <<>> THEN b ELSE a

Entry(role, content) == [role |-> role, content |-> content]


\* ------------------------------------------------------- command execution
\* What subprocess.run can do with a command: exit with a code, exceed the
\* 30 s timeout, or fail to start.
ProcOutcomes == {"exit", "timeout", "oserror"}

\* A run_command that reports a timeout as a failure to run.
RunCommandOutNoTimeout(command, outcome) ==
    CASE outcome = "exit" ->
            <<"Command: ">> \o command \o <<"\nExit code: ", "returncode", "\n", "stdout, stderr">>
      [] OTHER -> <<"Failed to run command: ", "OSError">>

\* SimpleAgent.run_command: the text it returns for each outcome of the process.
RunCommandOut(command, outcome) ==
    CASE outcome = "exit" ->
            <<"Command: ">> \o command \o <<"\nExit code: ", "returncode", "\n", "stdout, stderr">>
      [] outcome = "timeout" -> <<"Command timed out: ">> \o command
      [] OTHER -> <<"Failed to run command: ", "OSError">>

NoPendingMsg == <<"No pending command.">>
CanceledMsg == <<"Pending command canceled.">>
RunUsageMsg == <<"Usage: /run <command>">>
NotInAllowlist == <<"Not in safe allowlist">>

\* not x, for a text or None
Falsy(x) == x = NoneVal \/ x = <<>>

\* A queue that keeps a command that is already pending.
QueueCommandKeepFirst(command, reason, pending, pending_reason) ==
    [out |-> <<"Command requires confirmation.\n", "Reason: ">> \o reason
             \o <<"\n", "Pending: ">> \o command
             \o <<"\n\n", "Use /confirm to run it or /cancel to discard.">>,
     pending |-> IF Falsy(pending) THEN command ELSE pending,
     reason |-> IF Falsy(pending) THEN reason ELSE pending_reason,
     ran |-> <<>>]

\* SimpleAgent._queue_command: the pending command and reason it leaves (whatever
\* was pending before) and the prompt it returns.
QueueCommand(command, reason, pending, pending_reason) ==
    [out |-> <<"Command requires confirmation.\n", "Reason: ">> \o reason
             \o <<"\n", "Pending: ">> \o command
             \o <<"\n\n", "Use /confirm to run it or /cancel to discard.">>,
     pending |-> command,
     reason |-> reason,
     ran |-> <<>>]

\* A confirm that runs the command and forgets to clear it.
ConfirmCommandKeepsPending(pending, pending_reason, outcome) ==
    IF Falsy(pending)
    THEN [out |-> NoPendingMsg, pending |-> pending, reason |-> pending_reason, ran |-> <<>>]
    ELSE [out |-> RunCommandOut(pending, outcome), pending |-> pending,
          reason |-> pending_reason, ran |-> <<pending>>]

\* A confirm that does not look whether a command is pending.
ConfirmCommandUnchecked(pending, pending_reason, outcome) ==
    [out |-> RunCommandOut(pending, outcome), pending |-> NoneVal, reason |-> NoneVal,
     ran |-> <<pending>>]

\* SimpleAgent._confirm_command: ran lists the commands handed to run_command.
ConfirmCommand(pending, pending_reason, outcome) ==
    IF Falsy(pending)
    THEN [out |-> NoPendingMsg, pending |-> pending, reason |-> pending_reason, ran |-> <<>>]
    ELSE [out |-> RunCommandOut(pending, outcome), pending |-> NoneVal,
          reason |-> NoneVal, ran |-> <<pending>>]

\* SimpleAgent._cancel_command
CancelCommand(pending, pending_reason) ==
    IF Falsy(pending)
    THEN [out |-> NoPendingMsg, pending |-> pending, reason |-> pending_reason, ran |-> <<>>]
    ELSE [out |-> CanceledMsg, pending |-> NoneVal, reason |-> NoneVal, ran |-> <<>>]

\* A /run that executes the command it queues.
RunDirectiveRunsQueued(user_input, pending, pending_reason, outcome) ==
    LET cmd == Strip(Drop(Strip(user_input), 5))
    IN  IF cmd = <<>>
        THEN [out |-> RunUsageMsg, pending |-> pending, reason |-> pending_reason, ran |-> <<>>]
        ELSE IF IsCommandAllowed(cmd)
        THEN [out |-> RunCommandOut(cmd, outcome), pending |-> pending,
              reason |-> pending_reason, ran |-> <<cmd>>]
        ELSE [QueueCommand(cmd, NotInAllowlist, pending, pending_reason) EXCEPT !.ran = <<cmd>>]

\* A /run whose allowed command discards the pending one.
RunDirectiveClearsPending(user_input, pending, pending_reason, outcome) ==
    LET cmd == Strip(Drop(Strip(user_input), 5))
    IN  IF cmd = <<>>
        THEN [out |-> RunUsageMsg, pending |-> pending, reason |-> pending_reason, ran |-> <<>>]
        ELSE IF IsCommandAllowed(cmd)
        THEN [out |-> RunCommandOut(cmd, outcome), pending |-> NoneVal,
              reason |-> NoneVal, ran |-> <<cmd>>]
        ELSE QueueCommand(cmd, NotInAllowlist, pending, pending_reason)

\* The /run branch of process_request.
RunDirective(user_input, pending, pending_reason, outcome) ==
    LET cmd == Strip(Drop(Strip(user_input), 5))
    IN  IF cmd = <<>>
        THEN [out |-> RunUsageMsg, pending |-> pending, reason |-> pending_reason, ran |-> <<>>]
        ELSE IF IsCommandAllowed(cmd)
        THEN [out |-> RunCommandOut(cmd, outcome), pending |-> pending,
              reason |-> pending_reason, ran |-> <<cmd>>]
        ELSE QueueCommand(cmd, NotInAllowlist, pending, pending_reason)

\* ----------------------------------------------------------- chat history
\* An append that puts the entry in front of the history.
AppendHistoryInFront(history, limit, role, content) ==
    LastSlice(<<Entry(role, content)>> \o history, limit)

\* SimpleAgent._append_history: the history after the append and the slice
\* chat_history[-max_history:].
AppendHistory(history, limit, role, content) ==
    LastSlice(Append(history, Entry(role, content)), limit)

\* SimpleAgent.save_memory: the dict it leaves, chat_history[-30:] stored in it.
SaveMemory(m, history) == Put(m, "chat_history", LastSlice(history, SavedHistoryLimit))

\* SimpleAgent.remember
Remember(m, history, key, value) == SaveMemory(Put(m, key, value), history)


\* The planner was not asked.
NoContext == [history |-> <<>>, state |-> [rag_enabled |-> FALSE]]

\* No file was read.
NoRead == [kind |-> "none", len |-> 0]

\* ------------------------------------------------------ request effects
\* What a branch of process_request leaves behind when nothing in it changes
\* the session: m is self.memory when the branch starts.  pid names the process
\* a Popen of this request would create (the request's number); calls lists the
\* calls made on the subprocess interface for the server.
Base(m) ==
    [out |-> <<>>, raised |-> FALSE, branch |-> "", ran |-> <<>>, wrote |-> <<>>,
     invoked |-> <<>>, used |-> <<>>, aborted |-> FALSE,
     llm |-> llm, planner_llm |-> planner_llm,
     pending |-> pending_command, reason |-> pending_command_reason,
     memory |-> m, model_name |-> model_name,
     planner_model_name |-> planner_model_name,
     server |-> server_process, procs |-> processes, pid |-> nreq + 1, calls |-> <<>>,
     effects |-> <<>>, read |-> NoRead, context |-> NoContext, retrieved |-> <<>>,
     rag |-> rag_docs]

\* The effects of a branch that only calls the gate handler whose result is r.
WithGate(e, r, branch) ==
    [e EXCEPT !.branch = branch, !.out = r.out, !.pending = r.pending, !.reason = r.reason,
              !.ran = r.ran]

\* -------------------------------------------------------- model selection
\* The /models and /model list branch.
ModelsDirective(e) ==
    [e EXCEPT !.branch = "models",
              !.out = <<"Available models:\n", "- gpt-oss:120b-cloud\n- deepseek-v3.1:671b-cloud\n- qwen3-coder:480b-cloud",
                        "\n\nCurrent: ">> \o e.model_name \o <<"\n\nUse: /model <name>">>]

\* SimpleAgent._init_llm: both ChatOllama objects are constructed anew.
InitLlm(e) == [e EXCEPT !.llm = e.model_name, !.planner_llm = e.planner_model_name]

\* A set_model that leaves the ChatOllama objects as they are.
SetModelKeepsLlm(e, name) ==
    LET model == Strip(IF name = NoneVal THEN <<>> ELSE name)
    IN  IF model = <<>> THEN [e EXCEPT !.out = <<"Usage: /model <model-name>">>]
        ELSE [e EXCEPT !.model_name = model,
                       !.memory = Put(e.memory, "model_name", model),
                       !.out = <<"Model set to: ">> \o model]

\* SimpleAgent.set_model
SetModel(e, name) ==
    LET model == Strip(IF name = NoneVal THEN <<>> ELSE name)
    IN  IF model = <<>> THEN [e EXCEPT !.out = <<"Usage: /model <model-name>">>]
        ELSE InitLlm([e EXCEPT !.model_name = model,
                               !.memory = Put(e.memory, "model_name", model),
                               !.out = <<"Model set to: ">> \o model])

\* SimpleAgent.set_planner_model
SetPlannerModel(e, name) ==
    LET model == Strip(IF name = NoneVal THEN <<>> ELSE name)
    IN  IF model = <<>> THEN [e EXCEPT !.out = <<"Usage: /planner <model-name>">>]
        ELSE InitLlm([e EXCEPT !.planner_model_name = model,
                               !.memory = Put(e.memory, "planner_model_name", model),
                               !.out = <<"Planner model set to: ">> \o model])

\* The /model <arg> branch.
ModelDirective(e, user_input) ==
    LET arg == Strip(Drop(Strip(user_input), 7))
    IN  IF Lower(arg) \in {kwShow, kwCurrent}
        THEN [e EXCEPT !.branch = "model_show", !.out = <<"Current model: ">> \o e.model_name]
        ELSE [SetModel(e, arg) EXCEPT !.branch = "model_set"]

\* The /planner and /planner show branch.
PlannerShowDirective(e) ==
    [e EXCEPT !.branch = "planner_show", !.out = <<"Planner model: ">> \o e.planner_model_name]

\* The /planner <arg> branch.
PlannerDirective(e, user_input) ==
    [SetPlannerModel(e, Strip(Drop(Strip(user_input), 9))) EXCEPT !.branch = "planner_set"]

\* ------------------------------------------------------- retrieval store
\* self.rag_enabled = bool(self.memory.get("rag_enabled", True)); no request
\* writes the key.
RagEnabled(m) == Get(m, "rag_enabled", TRUE)

\* What the embedding service can answer: a vector, or nothing.
EmbedOutcomes == {"vector", "none"}

\* A rag_add that keeps the new entry only.
RagAddReplaces(e, text, type, embed) ==
    LET t == Strip(IF text = NoneVal THEN <<>> ELSE text)
    IN  IF ~RagEnabled(e.memory) \/ ~chroma_available \/ t = <<>> \/ embed # "vector"
        THEN [e EXCEPT !.out = <<"Not saved.">>]
        ELSE [e EXCEPT !.rag = <<[text |-> t, type |-> type]>>,
                       !.out = <<"Saved to RAG memory.">>]

\* A rag_query that asks the collection without an embedding of the query.
RagQueryUnembedded(e, query, k, embed) ==
    LET q == Strip(IF query = NoneVal THEN <<>> ELSE query)
        n == Len(e.rag)
        m == IF k < n THEN k ELSE n
    IN  IF ~RagEnabled(e.memory) \/ ~chroma_available \/ q = <<>>
        THEN <<>>
        ELSE [i \in 1..m |-> e.rag[n - i + 1].text]

\* SimpleAgent.rag_add: the result text and the collection afterwards.
RagAdd(e, text, type, embed) ==
    LET t == Strip(IF text = NoneVal THEN <<>> ELSE text)
    IN  IF ~RagEnabled(e.memory) THEN [e EXCEPT !.out = <<"RAG memory is disabled.">>]
        ELSE IF ~chroma_available
        THEN [e EXCEPT !.out = <<"ChromaDB is not available. Install dependencies and restart.">>]
        ELSE IF t = <<>> THEN [e EXCEPT !.out = <<"Usage: /remember <text>">>]
        ELSE IF embed # "vector"
        THEN [e EXCEPT !.out = <<"Could not create embeddings (is Ollama running and is the embed model available?).">>]
        ELSE [e EXCEPT !.rag = Append(e.rag, [text |-> t, type |-> type]),
                       !.out = <<"Saved to RAG memory.">>]

\* SimpleAgent.rag_query: the texts of up to k documents of the collection (the
\* collection's own nearest-first order is taken to be newest first).
RagQuery(e, query, k, embed) ==
    LET q == Strip(IF query = NoneVal THEN <<>> ELSE query)
        n == Len(e.rag)
        m == IF k < n THEN k ELSE n
    IN  IF ~RagEnabled(e.memory) \/ ~chroma_available \/ q = <<>> \/ embed # "vector"
        THEN <<>>
        ELSE [i \in 1..m |-> e.rag[n - i + 1].text]

\* "\n".join(f"- {m}" for m in items)
RECURSIVE BulletLines(_)
BulletLines(items) ==
    IF items = <<>> THEN <<>>
    ELSE IF Len(items) = 1 THEN <<"- ">> \o items[1]
    ELSE <<"- ">> \o items[1] \o <<"\n">> \o BulletLines(Tail(items))

\* The /remember branch.
RememberDirective(e, user_input, embed) ==
    [RagAdd(e, Strip(Drop(Strip(user_input), 10)), "manual", embed) EXCEPT !.branch = "remember"]

\* k of the /memories directive
MemoriesK == 6

\* The /memories branch.
MemoriesDirective(e, user_input, embed) ==
    LET q == Strip(Drop(Strip(user_input), 9))
        items == RagQuery(e, q, MemoriesK, embed)
    IN  IF q = <<>>
        THEN [e EXCEPT !.branch = "memories_usage", !.out = <<"Usage: /memories <query>">>]
        ELSE IF items = <<>>
        THEN [e EXCEPT !.branch = "memories_none", !.out = <<"No relevant memories found.">>]
        ELSE [e EXCEPT !.branch = "memories", !.retrieved = items,
                       !.out = <<"Retrieved memories:\n">> \o BulletLines(items)]


\* ------------------------------------------------------ file system, server
\* s.strip(chars)
RECURSIVE StripChars(_, _)
StripChars(s, chars) ==
    IF s # <<>> /\ Head(s) \in chars THEN StripChars(Tail(s), chars)
    ELSE IF s # <<>> /\ s[Len(s)] \in chars THEN StripChars(SubSeq(s, 1, Len(s) - 1), chars)
    ELSE s

\* (folder or default).strip().strip('"').strip("'")
Unquote(s) == StripChars(StripChars(Strip(s), {"\""}), {"'"})

\* The directories and files of the host the session runs on.
Www == <<"w", "w", "w">>
Dot == <<".">>
NotesFile == <<"f", ".", "t", "x", "t">>
Directories == {Www, Dot}
Files == {NotesFile}

Digits == {"0", "1", "2", "3", "4", "5", "6", "7", "8", "9"}

\* int(text) followed by str(): the decimal literal without leading zeros, or
\* NoneVal where int raises ValueError (the model's inputs carry no sign,
\* underscore or inner whitespace).
RECURSIVE DropZeros(_)
DropZeros(t) == IF Len(t) > 1 /\ Head(t) = "0" THEN DropZeros(Tail(t)) ELSE t

ParseInt(text) ==
    LET t == Strip(text)
    IN  IF t # <<>> /\ \A i \in 1..Len(t) : t[i] \in Digits THEN DropZeros(t) ELSE NoneVal

DefaultFolder == <<"restaurant-site">>
DefaultPort == <<"8", "0", "0", "0">>

\* What subprocess.Popen can do: start the server, or raise.
PopenOutcomes == {"started", "oserror"}

AlreadyRunningMsg == <<"A server is already running. Use /serve stop first.">>
NoServerMsg == <<"No server is currently running.">>

\* A start that does not look at the handle before it spawns.
ServeStartUnchecked(e, folder_arg, port, popen) ==
    LET folder == Unquote(IF folder_arg = NoneVal THEN <<>> ELSE folder_arg)
    IN  IF folder = <<>> THEN [e EXCEPT !.out = <<"Usage: /serve <folder> [port]">>]
        ELSE IF folder \notin Directories
        THEN [e EXCEPT !.out = <<"Folder not found: ">> \o folder]
        ELSE IF popen # "started"
        THEN [e EXCEPT !.server = NoHandle, !.calls = <<"Popen">>,
                       !.out = <<"Failed to start server: ", "OSError">>]
        ELSE [e EXCEPT !.server = e.pid, !.procs = e.procs \cup {e.pid},
                       !.calls = <<"Popen">>,
                       !.memory = Put(Put(e.memory, "last_served_folder", folder),
                                      "last_served_port", port),
                       !.out = <<"Serving '">> \o folder \o <<"' on http://localhost:">> \o port
                               \o <<"\n", "Stop with: /serve stop">>]

\* A stop that does not poll the process its handle refers to.
ServeStopUnpolled(e) ==
    IF e.server = NoHandle
    THEN [e EXCEPT !.out = NoServerMsg]
    ELSE [e EXCEPT !.server = NoHandle, !.procs = e.procs \ {e.server},
                   !.calls = <<"terminate">>, !.out = <<"Server stopped.">>]

\* A start that remembers the folder and the port before it spawns.
ServeStartRemembersFirst(e, folder_arg, port, popen) ==
    LET folder == Unquote(IF folder_arg = NoneVal THEN <<>> ELSE folder_arg)
        noted == Put(Put(e.memory, "last_served_folder", folder), "last_served_port", port)
    IN  IF folder = <<>> THEN [e EXCEPT !.out = <<"Usage: /serve <folder> [port]">>]
        ELSE IF folder \notin Directories
        THEN [e EXCEPT !.out = <<"Folder not found: ">> \o folder]
        ELSE IF e.server # NoHandle /\ e.server \in e.procs
        THEN [e EXCEPT !.out = AlreadyRunningMsg]
        ELSE IF popen # "started"
        THEN [e EXCEPT !.server = NoHandle, !.calls = <<"Popen">>, !.memory = noted,
                       !.out = <<"Failed to start server: ", "OSError">>]
        ELSE [e EXCEPT !.server = e.pid, !.procs = e.procs \cup {e.pid},
                       !.calls = <<"Popen">>, !.memory = noted,
                       !.out = <<"Serving '">> \o folder \o <<"' on http://localhost:">> \o port
                               \o <<"\n", "Stop with: /serve stop">>]

\* SimpleAgent._serve_start
ServeStart(e, folder_arg, port, popen) ==
    LET folder == Unquote(IF folder_arg = NoneVal THEN <<>> ELSE folder_arg)
    IN  IF folder = <<>> THEN [e EXCEPT !.out = <<"Usage: /serve <folder> [port]">>]
        ELSE IF folder \notin Directories
        THEN [e EXCEPT !.out = <<"Folder not found: ">> \o folder]
        ELSE IF e.server # NoHandle /\ e.server \in e.procs
        THEN [e EXCEPT !.out = AlreadyRunningMsg]
        ELSE IF popen # "started"
        THEN [e EXCEPT !.server = NoHandle, !.calls = <<"Popen">>,
                       !.out = <<"Failed to start server: ", "OSError">>]
        ELSE [e EXCEPT !.server = e.pid, !.procs = e.procs \cup {e.pid},
                       !.calls = <<"Popen">>,
                       !.memory = Put(Put(e.memory, "last_served_folder", folder),
                                      "last_served_port", port),
                       !.out = <<"Serving '">> \o folder \o <<"' on http://localhost:">> \o port
                               \o <<"\n", "Stop with: /serve stop">>]

\* SimpleAgent._serve_stop
ServeStop(e) ==
    IF e.server = NoHandle \/ e.server \notin e.procs
    THEN [e EXCEPT !.server = NoHandle, !.out = NoServerMsg]
    ELSE [e EXCEPT !.server = NoHandle, !.procs = e.procs \ {e.server},
                   !.calls = <<"terminate">>, !.out = <<"Server stopped.">>]

\* The /serve branch.
ServeDirective(e, user_input, popen) ==
    LET parts == Split(Strip(user_input))
    IN  IF Len(parts) = 1
        THEN LET folder == Or(Get(e.memory, "last_served_folder", NoneVal), DefaultFolder)
                 port == ParseInt(Or(Get(e.memory, "last_served_port", NoneVal), DefaultPort))
             IN  [ServeStart(e, folder, port, popen) EXCEPT !.branch = "serve_last"]
        ELSE IF Len(parts) >= 2 /\ Lower(parts[2]) = kwStop
        THEN [ServeStop(e) EXCEPT !.branch = "serve_stop"]
        ELSE IF Len(parts) >= 3 /\ ParseInt(parts[3]) = NoneVal
        THEN [e EXCEPT !.branch = "serve_port",
                       !.out = <<"Port must be a number. Example: /serve restaurant-site 8000">>]
        ELSE [ServeStart(e, parts[2], IF Len(parts) >= 3 THEN ParseInt(parts[3]) ELSE DefaultPort, popen)
                  EXCEPT !.branch = "serve_start"]

\* The /pwd and /cwd branch.
PwdDirective(e) == [e EXCEPT !.branch = "pwd", !.out = <<"/home/agent">>]

\* What listing a directory can do: return its children, or raise OSError (a
\* directory the process may not read).
ListOutcomes == {"children", "empty", "oserror"}

\* SimpleAgent._list_files: p.iterdir() stands outside any try, so its OSError
\* leaves the method as an exception.
ListFiles(e, folder_arg, listing) ==
    LET folder == Unquote(Or(folder_arg, Dot))
    IN  IF folder \notin Directories
        THEN [e EXCEPT !.out = <<"Folder not found: ">> \o folder]
        ELSE IF listing = "oserror"
        THEN [e EXCEPT !.raised = TRUE, !.out = <<"PermissionError">>]
        ELSE IF listing = "empty"
        THEN [e EXCEPT !.out = <<"(empty) ", "/home/agent/">> \o folder]
        ELSE [e EXCEPT !.out = <<"/home/agent/">> \o folder \o <<"\n", "- [file] ">> \o NotesFile]

\* The /files branch.
FilesDirective(e, user_input, listing) ==
    LET parts == Split1(Strip(user_input))
    IN  [ListFiles(e, IF Len(parts) = 2 THEN parts[2] ELSE Dot, listing) EXCEPT !.branch = "files"]

\* The ceiling of _read_file_text on the characters of a file it returns.
PreviewLimit == 8000

TruncationMarker == <<"\n\n... (truncated)">>

\* The first k characters of the text read_text returned.
FirstChars(k) == <<"text[:", ToString(k), "]">>

\* What Path.read_text can do: raise, or return a text of len characters.
ReadOutcomes ==
    {[kind |-> "oserror", len |-> 0],
     [kind |-> "text", len |-> PreviewLimit],
     [kind |-> "text", len |-> PreviewLimit + 1]}

\* A preview that returns the whole text whatever its length.
ReadFileTextWhole(e, path_arg, reading) ==
    LET path == Unquote(IF path_arg = NoneVal THEN <<>> ELSE path_arg)
    IN  IF path = <<>> THEN [e EXCEPT !.out = <<"Usage: /open <file-path>">>]
        ELSE IF path \notin Files THEN [e EXCEPT !.out = <<"File not found: ">> \o path]
        ELSE IF reading.kind = "oserror"
        THEN [e EXCEPT !.out = <<"Failed to read file: ", "OSError">>, !.read = reading]
        ELSE [e EXCEPT !.out = FirstChars(reading.len), !.read = reading]

\* SimpleAgent._read_file_text
ReadFileText(e, path_arg, reading) ==
    LET path == Unquote(IF path_arg = NoneVal THEN <<>> ELSE path_arg)
    IN  IF path = <<>> THEN [e EXCEPT !.out = <<"Usage: /open <file-path>">>]
        ELSE IF path \notin Files THEN [e EXCEPT !.out = <<"File not found: ">> \o path]
        ELSE IF reading.kind = "oserror"
        THEN [e EXCEPT !.out = <<"Failed to read file: ", "OSError">>, !.read = reading]
        ELSE IF reading.len > PreviewLimit
        THEN [e EXCEPT !.out = FirstChars(PreviewLimit) \o TruncationMarker, !.read = reading]
        ELSE [e EXCEPT !.out = FirstChars(reading.len), !.read = reading]

\* The /open branch.
OpenDirective(e, user_input, reading) ==
    [ReadFileText(e, Strip(Drop(Strip(user_input), 6)), reading) EXCEPT !.branch = "open"]

\* ------------------------------------------------------------ web search
\* What the search provider can do once a key is configured.
SearchOutcomes == {"results", "failed"}

\* A web_search that posts to the provider whether or not a key is configured.
WebSearchOutUnguarded(query, searching) ==
    IF searching = "failed" THEN <<"Web search failed: ", "HTTPError">>
    ELSE <<"Web Search Results for: '">> \o query \o <<"'\n\n", "results">>

\* SimpleAgent.web_search
WebSearchOut(query, searching) ==
    IF Falsy(tavily_api_key)
    THEN <<"Tavily API key not configured. Web search is not available.">>
    ELSE IF searching = "failed" THEN <<"Web search failed: ", "HTTPError">>
    ELSE <<"Web Search Results for: '">> \o query \o <<"'\n\n", "results">>

\* The /search branch.
SearchDirective(e, user_input, searching) ==
    LET query == Strip(Drop(Strip(user_input), 8))
    IN  [e EXCEPT !.branch = "search",
                  !.out = WebSearchOut(query, searching),
                  !.effects = IF Falsy(tavily_api_key) THEN @
                              ELSE Append(@, <<"web_search", query>>)]


\* ------------------------------------------------------------ plan executor
\* What writing a file can do.
WriteOutcomes == {"written", "oserror"}

\* SimpleAgent.create_file
CreateFileOut(path, writing) ==
    IF writing = "written" THEN <<"Successfully created: ">> \o path
    ELSE <<"Failed to create ">> \o path \o <<": ", "OSError">>

\* An executor pass that skips an action whose tool it does not know.
ExecuteActionSkipsUnknown(x, action, proc, writing, searching) ==
    LET tool == Get(action, "tool", NoneVal)
    IN  IF "nonobject" \in DOMAIN action
        THEN [x EXCEPT !.raised = TRUE]
        ELSE IF tool = <<"create_file">> /\ ~Falsy(Get(action, "path", NoneVal))
        THEN [x EXCEPT !.outputs = Append(@, CreateFileOut(action.path, writing)),
                       !.wrote = IF writing = "written" THEN Append(@, action.path) ELSE @,
                       !.effects = Append(@, <<"create_file", action.path>>)]
        ELSE IF tool = <<"run_command">> /\ ~Falsy(Get(action, "command", NoneVal))
        THEN [x EXCEPT !.outputs = Append(@, RunCommandOut(action.command, proc)),
                       !.ran = Append(@, action.command),
                       !.effects = Append(@, <<"run_command", action.command>>)]
        ELSE IF tool = <<"web_search">> /\ ~Falsy(Get(action, "query", NoneVal))
        THEN [x EXCEPT !.outputs = Append(@, WebSearchOut(action.query, searching)),
                       !.effects = IF Falsy(tavily_api_key) THEN @
                                   ELSE Append(@, <<"web_search", action.query>>)]
        ELSE IF tool \in {<<"create_file">>, <<"run_command">>, <<"web_search">>}
        THEN [x EXCEPT !.outputs = Append(@, <<tool[1] \o " missing field">>)]
        ELSE IF tool = <<"reply">> /\ ~Falsy(Get(action, "text", <<>>))
        THEN [x EXCEPT !.outputs = Append(@, action.text)]
        ELSE x

\* One pass of the for loop of _execute_plan: x is the executor's progress
\* (outputs, commands run, files written, whether the loop raised); the
\* outcomes are those of the collaborators the action calls; effects lists the
\* calls made to the file system, the shell and the search provider, in the
\* order they were made.  An element of
\* the actions list that is no JSON object has no get: action.get raises.
ExecuteAction(x, action, proc, writing, searching) ==
    LET tool == Get(action, "tool", NoneVal)
    IN  IF "nonobject" \in DOMAIN action
        THEN [x EXCEPT !.raised = TRUE]
        ELSE IF tool = <<"create_file">>
        THEN LET path == Get(action, "path", NoneVal)
             IN  IF Falsy(path)
                 THEN [x EXCEPT !.outputs = Append(@, <<"create_file missing 'path'">>)]
                 ELSE [x EXCEPT !.outputs = Append(@, CreateFileOut(path, writing)),
                                !.wrote = IF writing = "written" THEN Append(@, path) ELSE @,
                                !.effects = Append(@, <<"create_file", path>>)]
        ELSE IF tool = <<"run_command">>
        THEN LET cmd == Get(action, "command", NoneVal)
             IN  IF Falsy(cmd)
                 THEN [x EXCEPT !.outputs = Append(@, <<"run_command missing 'command'">>)]
                 ELSE [x EXCEPT !.outputs = Append(@, RunCommandOut(cmd, proc)),
                                !.ran = Append(@, cmd),
                                !.effects = Append(@, <<"run_command", cmd>>)]
        ELSE IF tool = <<"web_search">>
        THEN LET query == Get(action, "query", NoneVal)
             IN  IF Falsy(query)
                 THEN [x EXCEPT !.outputs = Append(@, <<"web_search missing 'query'">>)]
                 ELSE [x EXCEPT !.outputs = Append(@, WebSearchOut(query, searching)),
                                !.effects = IF Falsy(tavily_api_key) THEN @
                                            ELSE Append(@, <<"web_search", query>>)]
        ELSE IF tool = <<"reply">>
        THEN LET text == Get(action, "text", <<>>)
             IN  IF ~Falsy(text) THEN [x EXCEPT !.outputs = Append(@, text)] ELSE x
        ELSE [x EXCEPT !.outputs = Append(@, <<"Unknown tool in plan: ">> \o tool)]

RECURSIVE ExecuteFrom(_, _, _, _, _)
ExecuteFrom(x, actions, proc, writing, searching) ==
    IF actions = <<>> \/ x.raised THEN x
    ELSE ExecuteFrom(ExecuteAction(x, Head(actions), proc, writing, searching),
                     Tail(actions), proc, writing, searching)

\* "\n".join(o for o in outputs if o is not None and o != "")
RECURSIVE JoinLines(_)
JoinLines(outputs) ==
    IF outputs = <<>> THEN <<>>
    ELSE IF Falsy(Head(outputs)) THEN JoinLines(Tail(outputs))
    ELSE LET rest == JoinLines(Tail(outputs))
         IN  IF rest = <<>> THEN Head(outputs) ELSE Head(outputs) \o <<"\n">> \o rest

\* An executor that runs the first action of the plan only.
ExecutePlanFirstOnly(e, plan, proc, writing, searching) ==
    LET actions == Get(plan, "actions", <<>>)
        x == ExecuteFrom([outputs |-> <<>>, ran |-> <<>>, wrote |-> <<>>, effects |-> <<>>,
                         raised |-> FALSE],
                         IF actions = <<>> THEN <<>> ELSE <<Head(actions)>>,
                         proc, writing, searching)
    IN  [e EXCEPT !.out = JoinLines(x.outputs), !.ran = x.ran, !.wrote = x.wrote,
              !.effects = x.effects, !.aborted = x.raised]

\* The actions up to and including the first that has an inline error.
RECURSIVE UpToInvalid(_)
UpToInvalid(actions) ==
    IF actions = <<>> THEN <<>>
    ELSE LET tool == Get(Head(actions), "tool", NoneVal)
             invalid == \/ tool \notin {<<"create_file">>, <<"run_command">>,
                                        <<"web_search">>, <<"reply">>}
                        \/ tool = <<"create_file">> /\ Falsy(Get(Head(actions), "path", NoneVal))
                        \/ tool = <<"run_command">> /\ Falsy(Get(Head(actions), "command", NoneVal))
                        \/ tool = <<"web_search">> /\ Falsy(Get(Head(actions), "query", NoneVal))
         IN  IF invalid THEN <<Head(actions)>> ELSE <<Head(actions)>> \o UpToInvalid(Tail(actions))

\* An executor that gives up at the first invalid action.
ExecutePlanFailFast(e, plan, proc, writing, searching) ==
    LET x == ExecuteFrom([outputs |-> <<>>, ran |-> <<>>, wrote |-> <<>>, effects |-> <<>>,
                         raised |-> FALSE],
                         UpToInvalid(Get(plan, "actions", <<>>)), proc, writing, searching)
    IN  [e EXCEPT !.out = JoinLines(x.outputs), !.ran = x.ran, !.wrote = x.wrote,
              !.effects = x.effects, !.aborted = x.raised]

\* SimpleAgent._execute_plan
ExecutePlan(e, plan, proc, writing, searching) ==
    LET x == ExecuteFrom([outputs |-> <<>>, ran |-> <<>>, wrote |-> <<>>, effects |-> <<>>,
                         raised |-> FALSE],
                         Get(plan, "actions", <<>>), proc, writing, searching)
    IN  [e EXCEPT !.out = JoinLines(x.outputs), !.ran = x.ran, !.wrote = x.wrote,
              !.effects = x.effects, !.aborted = x.raised]

\* ------------------------------------------------------------- the models
Rm == <<"r", "m", " ", "x">>
Hello == <<"h", "e", "l", "l", "o">>

\* What planner_llm.invoke can do: raise, or answer with a text; json is what
\* json.loads makes of the text ("error" where it raises).
PlannerOutputs == {
    [kind |-> "raise", raw |-> <<"ConnectionError">>, json |-> "error", plan |-> [none |-> NoneVal]],
    [kind |-> "text", raw |-> <<" ">> \o Hello, json |-> "error", plan |-> [none |-> NoneVal]],
    [kind |-> "text", raw |-> <<"{", "hello">>, json |-> "error", plan |-> [none |-> NoneVal]],
    [kind |-> "text", raw |-> <<"{", "\"type\": \"note\"}">>, json |-> "object",
     plan |-> [type |-> <<"note">>]],
    [kind |-> "text", raw |-> <<"{", "\"type\": \"plan\", \"actions\": [reply]}">>, json |-> "object",
     plan |-> [type |-> <<"plan">>,
               actions |-> << [tool |-> <<"reply">>, text |-> Hello] >>]],
    [kind |-> "text", raw |-> <<"{", "\"type\": \"plan\", \"actions\": [run_command, reply]}">>,
     json |-> "object",
     plan |-> [type |-> <<"plan">>,
               actions |-> << [tool |-> <<"run_command">>, command |-> Rm],
                              [tool |-> <<"reply">>, text |-> Hello] >>]],
    [kind |-> "text", raw |-> <<"{", "\"type\": \"plan\", \"actions\": [create_file, create_file, web_search, zip]}">>,
     json |-> "object",
     plan |-> [type |-> <<"plan">>,
               actions |-> << [tool |-> <<"create_file">>, content |-> Hello],
                              [tool |-> <<"create_file">>, path |-> NotesFile, content |-> Hello],
                              [tool |-> <<"web_search">>, query |-> Hello],
                              [tool |-> <<"zip">>] >>]],
    [kind |-> "text", raw |-> <<"{", "\"type\": \"plan\", \"actions\": [run_command, \"oops\"]}">>,
     json |-> "object",
     plan |-> [type |-> <<"plan">>,
               actions |-> << [tool |-> <<"run_command">>, command |-> Rm],
                              [nonobject |-> <<"oops">>] >>]] }

\* What llm.invoke can do: raise, or answer.
ReplyOutputs == {
    [kind |-> "raise", raw |-> <<"ConnectionError">>],
    [kind |-> "text", raw |-> <<"H", "i", "!">>] }

\* The tools of a planner output's actions.
ToolsOf(p) ==
    IF p.kind = "text" /\ p.json = "object" /\ "actions" \in DOMAIN p.plan
    THEN {Get(p.plan.actions[i], "tool", NoneVal) : i \in DOMAIN p.plan.actions}
    ELSE {}

\* A planning path that executes every JSON object, whatever its type.
PlanPathAnyObject(e, user_input, planned, reply, embed, proc, writing, searching) ==
    LET text == Strip(planned.raw)
        asked == [e EXCEPT !.invoked = <<"planner">>, !.used = <<e.planner_llm>>]
        isPlan == /\ StartsWith(text, <<"{">>)
                  /\ planned.json = "object"
        done == IF isPlan THEN ExecutePlan(asked, planned.plan, proc, writing, searching)
                ELSE asked
    IN  IF planned.kind = "raise"
        THEN [asked EXCEPT !.branch = "plan_error", !.raised = TRUE, !.out = planned.raw]
        ELSE IF isPlan /\ ~done.aborted
        THEN [done EXCEPT !.branch = "executed_plan",
                          !.memory = Put(done.memory, "last_action", <<"executed_plan">>)]
        ELSE IF reply.kind = "raise"
        THEN [done EXCEPT !.branch = "reply_error", !.raised = TRUE, !.out = reply.raw,
                          !.invoked = <<"planner", "primary">>,
                          !.used = <<e.planner_llm, e.llm>>]
        ELSE LET answered == [done EXCEPT !.invoked = <<"planner", "primary">>,
                                          !.used = <<e.planner_llm, e.llm>>]
                 stored == IF RagEnabled(e.memory)
                           THEN RagAdd(answered, <<"USER: ">> \o user_input \o <<"\nASSISTANT: ">> \o reply.raw,
                                       "chat", embed)
                           ELSE answered
             IN  [stored EXCEPT !.branch = "reply", !.out = reply.raw]

\* A planning path that answers with the planner's text where it is no JSON.
PlanPathReturnsText(e, user_input, planned, reply, embed, proc, writing, searching) ==
    LET text == Strip(planned.raw)
        asked == [e EXCEPT !.invoked = <<"planner">>, !.used = <<e.planner_llm>>]
        isPlan == /\ StartsWith(text, <<"{">>)
                  /\ planned.json = "object"
                  /\ Get(planned.plan, "type", NoneVal) = <<"plan">>
        done == IF isPlan THEN ExecutePlan(asked, planned.plan, proc, writing, searching)
                ELSE asked
    IN  IF planned.kind = "raise"
        THEN [asked EXCEPT !.branch = "plan_error", !.raised = TRUE, !.out = planned.raw]
        ELSE IF isPlan /\ ~done.aborted
        THEN [done EXCEPT !.branch = "executed_plan",
                          !.memory = Put(done.memory, "last_action", <<"executed_plan">>)]
        ELSE IF ~StartsWith(text, <<"{">>)
        THEN [asked EXCEPT !.branch = "reply", !.out = text]
        ELSE IF reply.kind = "raise"
        THEN [done EXCEPT !.branch = "reply_error", !.raised = TRUE, !.out = reply.raw,
                          !.invoked = <<"planner", "primary">>,
                          !.used = <<e.planner_llm, e.llm>>]
        ELSE LET answered == [done EXCEPT !.invoked = <<"planner", "primary">>,
                                          !.used = <<e.planner_llm, e.llm>>]
                 stored == IF RagEnabled(e.memory)
                           THEN RagAdd(answered, <<"USER: ">> \o user_input \o <<"\nASSISTANT: ">> \o reply.raw,
                                       "chat", embed)
                           ELSE answered
             IN  [stored EXCEPT !.branch = "reply", !.out = reply.raw]

\* The entries of the history and the snippets _plan hands to the planner.
HistoryWindow == 6
ContextK == 3

\* A planning context that holds the whole history.
PlanContextWholeHistory(e, user_input, embed) ==
    LET retrieved == RagQuery(e, user_input, ContextK, embed)
        state == [rag_enabled |-> RagEnabled(e.memory)]
    IN  [history |-> AppendHistory(chat_history, max_history, "user", user_input),
         state |-> IF retrieved # <<>> THEN state @@ [retrieved_memories |-> retrieved]
                   ELSE state]

\* SimpleAgent._plan, lines 452-471: the messages for the planner hold the last
\* HistoryWindow entries of the history, the user's entry of this request
\* being the newest, and the state, with retrieved_memories where rag_query
\* with k = ContextK returned something.
PlanContext(e, user_input, embed) ==
    LET retrieved == RagQuery(e, user_input, ContextK, embed)
        state == [rag_enabled |-> RagEnabled(e.memory)]
    IN  [history |-> LastSlice(AppendHistory(chat_history, max_history, "user", user_input),
                               HistoryWindow),
         state |-> IF retrieved # <<>> THEN state @@ [retrieved_memories |-> retrieved]
                   ELSE state]

\* The planning path of process_request, lines 638-677: _plan, the plan codec,
\* the plan executor, and the plain reply.  An exception of the executor is
\* swallowed at line 648 with the exceptions of json.loads: the request goes
\* on into the plain reply with what the executor had done by then.
PlanPath(e, user_input, planned, reply, embed, proc, writing, searching) ==
    LET text == Strip(planned.raw)
        asked == [e EXCEPT !.invoked = <<"planner">>, !.used = <<e.planner_llm>>,
                           !.context = PlanContext(e, user_input, embed),
                           !.retrieved = RagQuery(e, user_input, ContextK, embed)]
        isPlan == /\ StartsWith(text, <<"{">>)
                  /\ planned.json = "object"
                  /\ Get(planned.plan, "type", NoneVal) = <<"plan">>
        done == IF isPlan THEN ExecutePlan(asked, planned.plan, proc, writing, searching)
                ELSE asked
    IN  IF planned.kind = "raise"
        THEN [asked EXCEPT !.branch = "plan_error", !.raised = TRUE, !.out = planned.raw]
        ELSE IF isPlan /\ ~done.aborted
        THEN [done EXCEPT !.branch = "executed_plan",
                          !.memory = Put(done.memory, "last_action", <<"executed_plan">>)]
        ELSE IF reply.kind = "raise"
        THEN [done EXCEPT !.branch = "reply_error", !.raised = TRUE, !.out = reply.raw,
                          !.invoked = <<"planner", "primary">>,
                          !.used = <<e.planner_llm, e.llm>>]
        ELSE LET answered == [done EXCEPT !.invoked = <<"planner", "primary">>,
                                          !.used = <<e.planner_llm, e.llm>>]
                 stored == IF RagEnabled(e.memory)
                           THEN RagAdd(answered, <<"USER: ">> \o user_input \o <<"\nASSISTANT: ">> \o reply.raw,
                                       "chat", embed)
                           ELSE answered
             IN  [stored EXCEPT !.branch = "reply", !.out = reply.raw]


\* ------------------------------------------------------------ persistence
\* JSON values carry their type: t is one of "obj", "list", "str", "num",
\* "bool", "null", and v the value.  The value json.dump writes for a key of
\* self.memory has the type the code stores under that key.
TypeOfKey(key) ==
    IF key \in {"max_history", "temperature", "planner_temperature", "rag_k"} THEN "num"
    ELSE IF key = "chat_history" THEN "list"
    ELSE IF key = "rag_enabled" THEN "bool"
    ELSE "str"

\* json.dump(self.memory, f): what agent_memory.json holds after save_memory.
Dump(m) ==
    [kind |-> "json",
     value |-> [t |-> "obj", v |-> [k \in DOMAIN m |-> [t |-> TypeOfKey(k), v |-> m[k]]]]]

\* SimpleAgent.load_memory: the value json.load returns, or {} where the file
\* is absent or where json.load raises.
LoadMemory(file) ==
    IF file.kind = "json" THEN file.value
    ELSE [t |-> "obj", v |-> [k \in {} |-> NoneVal]]

\* The number a text of digits denotes.
RECURSIVE NatOf(_)
NatOf(t) ==
    IF t = <<>> THEN 0
    ELSE 10 * NatOf(SubSeq(t, 1, Len(t) - 1))
         + (CHOOSE d \in 0..9 : ToString(d) = t[Len(t)])

\* int(x) at lines 39 and 51, and float(x) in _init_llm, return: x is a number,
\* or a text that denotes one (the model's files hold no text with a sign, a
\* decimal point or an exponent); on anything else they raise.
Converts(j) ==
    \/ j.t \in {"num", "bool"}
    \/ j.t = "str" /\ ParseInt(j.v) # NoneVal

\* The value int(x) returns where it returns.
IntOf(j) ==
    IF j.t = "num" THEN j.v
    ELSE IF j.t = "bool" THEN (IF j.v THEN 1 ELSE 0)
    ELSE NatOf(ParseInt(j.v))

\* SimpleAgent.__init__, lines 35-51, on what agent_memory.json holds: the
\* fields of the session, or crashed where a statement raises.
Boot(file) ==
    LET loaded == LoadMemory(file)
        dict == [k \in DOMAIN loaded.v |-> loaded.v[k].v]
        num(key, default) == IF key \in DOMAIN loaded.v THEN loaded.v[key]
                             ELSE [t |-> "num", v |-> default]
        crash == [crashed |-> TRUE]
    IN  IF loaded.t # "obj" THEN crash
        ELSE IF ~Converts(num("max_history", DefaultMaxHistory)) THEN crash
        ELSE IF ~Converts(num("temperature", 0)) THEN crash
        ELSE IF ~Converts(num("planner_temperature", 0)) THEN crash
        ELSE IF ~Converts(num("rag_k", 4)) THEN crash
        ELSE [crashed |-> FALSE,
              memory |-> dict,
              chat_history |-> Get(dict, "chat_history", <<>>),
              max_history |-> IntOf(num("max_history", DefaultMaxHistory)),
              model_name |-> Or(Get(dict, "model_name", NoneVal), <<"gpt-oss:120b-cloud">>),
              planner_model_name |-> Or(Get(dict, "planner_model_name", NoneVal),
                                        <<"qwen3-coder:480b-cloud">>)]

\* ------------------------------------------------------------ the session
\* agent_memory.json as a session can find it at startup: absent (or unreadable),
\* or holding a configured max_history and the history a previous session saved.
OldHistory ==
    [i \in 1..(MaxHistoryCfg + 1) |->
        Entry(IF i % 2 = 1 THEN "user" ELSE "assistant", <<"old", ToString(i)>>)]

EmptyMemory == [k \in {} |-> NoneVal]

PersistedFiles ==
    {EmptyMemory}
    \cup {[max_history |-> m, chat_history |-> OldHistory] : m \in 0..MaxHistoryCfg}

\* The host's configuration: TAVILY_API_KEY, and whether chromadb imports.
SearchHost == [tavily_api_key |-> <<"tvly-key">>, chroma |-> FALSE]
MemoryHost == [tavily_api_key |-> NoneVal, chroma |-> TRUE]

\* The notes earlier sessions stored in the collection of the memory host.
OldNotes == [i \in 1..(MemoriesK + 1) |-> [text |-> <<"note", ToString(i)>>, type |-> "manual"]]

\* The installations a session starts on: a fresh one on the host with the
\* retrieval store, one per configured max_history, on either host in turn
\* (those on the memory host with the notes of earlier sessions),
\* and one whose file switches retrieval off after an earlier session had
\* stored a note; docs is what the persistent collection holds.
Installations ==
    {[file |-> EmptyMemory, host |-> MemoryHost, docs |-> <<>>]}
    \cup {[file |-> f, host |-> IF f.max_history % 2 = 0 THEN SearchHost ELSE MemoryHost,
            docs |-> IF f.max_history % 2 = 0 THEN <<>> ELSE OldNotes] :
             f \in PersistedFiles \ {EmptyMemory}}
    \cup {[file |-> [rag_enabled |-> FALSE], host |-> MemoryHost,
            docs |-> <<[text |-> <<"old note">>, type |-> "manual"]>>]}

Dir == <<"d", "i", "r">>
Del == <<"D", "E", "L", " ", "x">>

\* The requests the model's user sends.
UserInputs == {
    kwModels,
    kwModelSp \o kwShow,
    kwModelSp \o <<"m", "2">>,
    kwPlannerShow,
    kwPlannerSp \o <<"p", "2">>,
    kwRememberSp \o Hello,
    kwMemories,
    kwMemories \o <<" ">> \o Hello,
    kwServe,
    kwServe \o <<" ">> \o kwStop,
    kwServe \o <<" ">> \o Www \o <<" ", "0", "8", "0">>,
    kwServe \o <<" ">> \o Www \o <<" ", "x">>,
    kwPwd,
    kwFiles \o <<" ">> \o Www,
    kwOpenSp \o NotesFile,
    <<" ", "/", "C", "o", "n", "f", "i", "r", "m", " ">>,
    kwCancel,
    kwRunSp \o Dir \o <<" ", "/", "b">>,
    kwRunSp \o Rm,
    kwRunSp \o <<" ">> \o Del,
    kwSearchSp \o Hello,
    Hello }

\* RouteOf on each of them.
RouteTable == [u \in UserInputs |-> RouteOf(u)]

InputsOf(route) == {u \in UserInputs : RouteTable[u] = route}

InitLast ==
    [input |-> <<>>, route |-> "none", branch |-> "none", out |-> <<>>, raised |-> FALSE,
     ran |-> <<>>, wrote |-> <<>>, invoked |-> <<>>, used |-> <<>>, calls |-> <<>>,
     aborted |-> FALSE, read |-> NoRead, effects |-> <<>>,
     context |-> NoContext, retrieved |-> <<>>,
     appended |-> <<>>,
     pending_before |-> NoneVal, reason_before |-> NoneVal, canceled_before |-> {},
     prev_route |-> "none", prev_ran |-> <<>>]

\* SimpleAgent.__init__
InitSession ==
    /\ \E inst \in Installations :
          /\ memory = inst.file
          /\ tavily_api_key = inst.host.tavily_api_key
          /\ chroma_available = inst.host.chroma
          /\ rag_docs = inst.docs
    /\ chat_history = Get(memory, "chat_history", <<>>)
    /\ max_history = Get(memory, "max_history", DefaultMaxHistory)
    /\ model_name = Or(Get(memory, "model_name", NoneVal), <<"gpt-oss:120b-cloud">>)
    /\ planner_model_name = Or(Get(memory, "planner_model_name", NoneVal), <<"qwen3-coder:480b-cloud">>)
    /\ server_process = NoHandle
    /\ processes = {}
    /\ pending_command = NoneVal
    /\ pending_command_reason = NoneVal
    /\ nreq = 0
    /\ last = InitLast
    /\ canceled = {}
    /\ memory_file = Dump(memory)
    /\ session = "up"
    /\ llm = model_name
    /\ planner_llm = planner_model_name

\* No request to the tool server.
NoTools ==
    /\ tool_req = [none |-> TRUE]
    /\ tool_resp = <<>>

\* No call of the gate on its own.
NoGate ==
    /\ gate_cmd = <<>>
    /\ gate_result = <<>>

\* No run of the planning path on its own.
NoPlan ==
    /\ plan_in = <<>>
    /\ plan_out = <<>>

\* No worker thread: the requests are served one after the other.
NoThreads ==
    /\ threads = <<>>
    /\ log = <<>>

Init ==
    /\ InitSession
    /\ NoGate
    /\ NoTools
    /\ NoPlan
    /\ NoThreads

\* The first two statements of process_request: the user entry is appended and
\* last_request remembered; the branches start from here.
Start(user_input) ==
    LET h1 == AppendHistory(chat_history, max_history, "user", user_input)
    IN  Base(Remember(SaveMemory(memory, h1), h1, "last_request", user_input))

\* The end of process_request for a branch with effects e: the result is
\* appended as the assistant entry and returned; an exception is caught at line
\* 679 and returned as the error text, nothing more appended.
Complete(user_input, e) ==
    LET h1 == AppendHistory(chat_history, max_history, "user", user_input)
        h2 == IF e.raised THEN h1 ELSE AppendHistory(h1, max_history, "assistant", e.out)
        response == IF e.raised THEN <<"Error processing request: ">> \o e.out ELSE e.out
    IN  /\ session = "up"
        /\ chat_history' = h2
        /\ memory' = SaveMemory(e.memory, h2)
        /\ memory_file' = Dump(memory')
        /\ model_name' = e.model_name
        /\ planner_model_name' = e.planner_model_name
        /\ llm' = e.llm
        /\ planner_llm' = e.planner_llm
        /\ rag_docs' = e.rag
        /\ server_process' = e.server
        /\ processes' = e.procs
        /\ pending_command' = e.pending
        /\ pending_command_reason' = e.reason
        /\ nreq' = nreq + 1
        /\ last' = [input |-> user_input, route |-> RouteTable[user_input], branch |-> e.branch,
                    out |-> response, raised |-> e.raised, ran |-> e.ran, wrote |-> e.wrote,
                    invoked |-> e.invoked, used |-> e.used, calls |-> e.calls,
                    aborted |-> e.aborted, read |-> e.read, effects |-> e.effects,
                    context |-> e.context, retrieved |-> e.retrieved,
                    appended |-> IF e.raised THEN <<Entry("user", user_input)>>
                                 ELSE <<Entry("user", user_input), Entry("assistant", e.out)>>,
                    pending_before |-> pending_command,
                    reason_before |-> pending_command_reason,
                    canceled_before |-> canceled,
                    prev_route |-> last.route, prev_ran |-> last.ran]
        /\ canceled' = IF e.branch = "cancel" /\ ~Falsy(pending_command)
                       THEN canceled \cup {pending_command}
                       ELSE IF e.branch = "run" /\ e.ran = <<>> /\ ~Falsy(e.pending)
                                 /\ ~IsCommandAllowed(e.pending)
                                 /\ e.pending = Strip(Drop(Strip(user_input), 5))
                       THEN canceled \ {e.pending}
                       ELSE canceled
        /\ UNCHANGED <<max_history, tavily_api_key, chroma_available, gateVars, toolVars, planVars, askVars,
                       session>>

\* One action per branch of process_request.  The branch's effects are computed
\* from the state at the start of the request and applied as a whole.
Models ==
    /\ nreq < MaxRequests
    /\ \E u \in InputsOf("models") :
          \E e \in {ModelsDirective(Start(u))} : Complete(u, e)

Model ==
    /\ nreq < MaxRequests
    /\ \E u \in InputsOf("model") :
          \E e \in {ModelDirective(Start(u), u)} : Complete(u, e)

PlannerShow ==
    /\ nreq < MaxRequests
    /\ \E u \in InputsOf("planner_show") :
          \E e \in {PlannerShowDirective(Start(u))} : Complete(u, e)

Planner ==
    /\ nreq < MaxRequests
    /\ \E u \in InputsOf("planner") :
          \E e \in {PlannerDirective(Start(u), u)} : Complete(u, e)

RememberText ==
    /\ nreq < MaxRequests
    /\ \E u \in InputsOf("remember"), embed \in EmbedOutcomes :
          \E e \in {RememberDirective(Start(u), u, embed)} : Complete(u, e)

Memories ==
    /\ nreq < MaxRequests
    /\ \E u \in InputsOf("memories"), embed \in EmbedOutcomes :
          \E e \in {MemoriesDirective(Start(u), u, embed)} : Complete(u, e)

Serve ==
    /\ nreq < MaxRequests
    /\ \E u \in InputsOf("serve"), popen \in PopenOutcomes :
          \E e \in {ServeDirective(Start(u), u, popen)} : Complete(u, e)

Pwd ==
    /\ nreq < MaxRequests
    /\ \E u \in InputsOf("pwd") :
          \E e \in {PwdDirective(Start(u))} : Complete(u, e)

ListFolder ==
    /\ nreq < MaxRequests
    /\ \E u \in InputsOf("files"), listing \in ListOutcomes :
          \E e \in {FilesDirective(Start(u), u, listing)} : Complete(u, e)

Open ==
    /\ nreq < MaxRequests
    /\ \E u \in InputsOf("open"), reading \in ReadOutcomes :
          \E e \in {OpenDirective(Start(u), u, reading)} : Complete(u, e)

Confirm ==
    /\ nreq < MaxRequests
    /\ \E u \in InputsOf("confirm"), proc \in ProcOutcomes :
          \E e \in {WithGate(Start(u),
                             ConfirmCommand(pending_command, pending_command_reason, proc),
                             "confirm")} : Complete(u, e)

Cancel ==
    /\ nreq < MaxRequests
    /\ \E u \in InputsOf("cancel") :
          \E e \in {WithGate(Start(u),
                             CancelCommand(pending_command, pending_command_reason),
                             "cancel")} : Complete(u, e)

Run ==
    /\ nreq < MaxRequests
    /\ \E u \in InputsOf("run"), proc \in ProcOutcomes :
          \E e \in {WithGate(Start(u),
                             RunDirective(u, pending_command, pending_command_reason, proc),
                             "run")} : Complete(u, e)

Search ==
    /\ nreq < MaxRequests
    /\ \E u \in InputsOf("search"), searching \in SearchOutcomes :
          \E e \in {SearchDirective(Start(u), u, searching)} : Complete(u, e)

Plan ==
    /\ nreq < MaxRequests
    /\ \E u \in InputsOf("plan"), planned \in PlannerOutputs :
          \E reply \in ReplyOutputs,
             embed \in EmbedOutcomes,
             proc \in (IF <<"run_command">> \in ToolsOf(planned) THEN ProcOutcomes ELSE {"exit"}),
             writing \in (IF <<"create_file">> \in ToolsOf(planned) THEN WriteOutcomes ELSE {"written"}),
             searching \in (IF <<"web_search">> \in ToolsOf(planned) THEN SearchOutcomes ELSE {"results"}) :
               \E e \in {PlanPath(Start(u), u, planned, reply, embed, proc, writing, searching)} :
                   Complete(u, e)

\* The server process ends by itself: poll() no longer returns None.
ServerExits ==
    /\ server_process \in processes
    /\ processes' = processes \ {server_process}
    /\ UNCHANGED <<memory, chat_history, max_history, model_name, planner_model_name,
                   tavily_api_key, chroma_available, rag_docs, server_process, pending_command,
                   pending_command_reason, nreq, last, canceled, gateVars, toolVars, planVars, askVars,
                   bootVars, llmVars>>

Next ==
    \/ Models
    \/ Model
    \/ PlannerShow
    \/ Planner
    \/ RememberText
    \/ Memories
    \/ Serve
    \/ Pwd
    \/ ListFolder
    \/ Open
    \/ Confirm
    \/ Cancel
    \/ Run
    \/ Search
    \/ Plan
    \/ ServerExits

Spec == Init /\ [][Next]_vars


\* ------------------------------------------------- the gate on its own
\* str.upper(), on the letters of the model
UpperChar(c) ==
    IF \E i \in 1..26 : LowerAlpha[i] = c
    THEN UpperAlpha[CHOOSE i \in 1..26 : LowerAlpha[i] = c]
    ELSE c

Upper(s) == [i \in 1..Len(s) |-> UpperChar(s[i])]

GateAlphabet == {"d", "D", "i", "r", " ", "x"}

\* The commands the gate is asked about: every text over GateAlphabet of up to
\* MaxCmdLen characters, and each allow-listed prefix, whole, cut short or
\* preceded by another character, in lower and upper case, padded with blanks
\* and followed by arguments.
GateInputs ==
    SeqsUpTo(GateAlphabet, MaxCmdLen)
    \cup {pad \o word \o tail \o pad :
            pad \in {<<>>, <<" ">>, <<"\t", " ">>},
            tail \in {<<>>, <<"x">>, <<" ", "/", "b">>, <<";", " ", "r", "m">>},
            word \in UNION {{p, Upper(p), SubSeq(p, 1, Len(p) - 1), <<"x">> \o p, Tail(p)} :
                               p \in Range(allowed_command_prefixes)}}

\* A session just constructed on a host without agent_memory.json, search key
\* or retrieval store.
FreshSession ==
    /\ memory = EmptyMemory
    /\ chat_history = <<>>
    /\ max_history = DefaultMaxHistory
    /\ model_name = <<"gpt-oss:120b-cloud">>
    /\ planner_model_name = <<"qwen3-coder:480b-cloud">>
    /\ tavily_api_key = NoneVal
    /\ chroma_available = FALSE
    /\ rag_docs = <<>>
    /\ server_process = NoHandle
    /\ processes = {}
    /\ pending_command = NoneVal
    /\ pending_command_reason = NoneVal
    /\ nreq = 0
    /\ last = InitLast
    /\ canceled = {}
    /\ memory_file = Dump(memory)
    /\ session = "up"
    /\ llm = model_name
    /\ planner_llm = planner_model_name

InitGate ==
    /\ gate_cmd \in GateInputs
    /\ gate_result = <<>>
    /\ FreshSession
    /\ NoPlan
    /\ NoThreads
    /\ NoTools

\* A call of _is_command_allowed(gate_cmd).
CheckCommand ==
    /\ gate_result = <<>>
    /\ gate_result' = <<IsCommandAllowed(gate_cmd)>>
    /\ UNCHANGED <<gate_cmd, memory, chat_history, max_history, model_name,
                   planner_model_name, tavily_api_key, chroma_available, rag_docs,
                   server_process, processes, pending_command, pending_command_reason,
                   nreq, last, canceled, planVars, askVars, bootVars, llmVars, toolVars>>

NextGate == CheckCommand

SpecGate == InitGate /\ [][NextGate]_vars


\* ------------------------------------------- requests on worker threads
\* python_agent_server.ask hands every request to process_request on a thread of
\* the default executor, all on the one agent of get_agent, with no lock.  The
\* threads below run process_request statement by statement on the session's
\* fields; a thread switch can fall between any two statements.
MaxWorkers == 2

Workers == 1..MaxWorkers

ServeWww80 == kwServe \o <<" ">> \o Www \o <<" ", "8", "0">>
ServeWww81 == kwServe \o <<" ">> \o Www \o <<" ", "8", "1">>

\* The requests that arrive while another may be in progress.
AskInputs == {
    kwConfirm,
    kwCancel,
    ServeWww80,
    ServeWww81,
    kwServe \o <<" ">> \o kwStop,
    kwServe \o <<" ">> \o <<"n", "o", "n", "e">> }

\* RouteOf on each of them.
AskRoutes == [u \in AskInputs |-> RouteOf(u)]

\* AskRequest.user_id of the requests a worker serves: two clients, each with
\* its own user_id, the first being the one whose /run queued the command.
\* get_agent takes no user_id: every request is served by the one module-level
\* _agent, the session the variables of this module are the fields of.
UserIdOf == [t \in Workers |-> IF t = 1 THEN "default" ELSE "guest"]

\* A worker with no request.
Idle ==
    [pc |-> "idle", input |-> <<>>, role |-> "", content |-> <<>>, out |-> <<>>,
     cmd |-> NoneVal, slice |-> <<>>, port |-> <<>>, folder |-> <<>>, ran |-> <<>>,
     response |-> <<>>, user_id |-> ""]

\* The session the overlapping requests find: constructed from an absent memory
\* file or from one that configures max_history, and having served /run rm x,
\* which queued the command.
AskSessions ==
    {LET u == kwRunSp \o Rm
         limit == Get(f, "max_history", DefaultMaxHistory)
         h1 == AppendHistory(Get(f, "chat_history", <<>>), limit, "user", u)
         q == RunDirective(u, NoneVal, NoneVal, "exit")
         h2 == AppendHistory(h1, limit, "assistant", q.out)
     IN  [memory |-> SaveMemory(Remember(SaveMemory(f, h1), h1, "last_request", u), h2),
          chat_history |-> h2, max_history |-> limit,
          pending |-> q.pending, reason |-> q.reason] :
       f \in {EmptyMemory, [max_history |-> MaxHistoryCfg, chat_history |-> OldHistory]}}

InitAsk ==
    /\ \E s \in AskSessions :
          /\ memory = s.memory
          /\ chat_history = s.chat_history
          /\ max_history = s.max_history
          /\ pending_command = s.pending
          /\ pending_command_reason = s.reason
    /\ model_name = <<"gpt-oss:120b-cloud">>
    /\ planner_model_name = <<"qwen3-coder:480b-cloud">>
    /\ tavily_api_key = NoneVal
    /\ chroma_available = FALSE
    /\ rag_docs = <<>>
    /\ server_process = NoHandle
    /\ processes = {}
    /\ nreq = 0
    /\ last = InitLast
    /\ canceled = {}
    /\ NoGate
    /\ NoTools
    /\ NoPlan
    /\ threads = [t \in Workers |-> Idle]
    /\ log = chat_history
    /\ memory_file = Dump(memory)
    /\ session = "up"
    /\ llm = model_name
    /\ planner_llm = planner_model_name

\* The fields no statement of the modelled branches assigns.
askFixed == <<max_history, model_name, planner_model_name, tavily_api_key, chroma_available,
              rag_docs, nreq, last, canceled, gateVars, toolVars, planVars, session, llmVars>>

\* The branch has its result: the assistant entry is appended next.
Result(w, out) == [w EXCEPT !.pc = "append", !.role = "assistant", !.content = out, !.out = out]

\* ask, line 71: a worker thread enters process_request with the request.
Ask ==
    \E t \in Workers, u \in AskInputs :
        /\ threads[t].pc = "idle"
        /\ threads' = [threads EXCEPT ![t] = [Idle EXCEPT !.pc = "append", !.input = u,
                                                          !.role = "user", !.content = u,
                                                          !.user_id = UserIdOf[t]]]
        /\ UNCHANGED <<askFixed, memory_file, memory, chat_history, server_process, processes,
                       pending_command, pending_command_reason, log>>

\* _append_history, line 196: self.chat_history.append(entry)
HistoryAppend ==
    \E t \in Workers :
        /\ threads[t].pc = "append"
        /\ chat_history' = Append(chat_history, Entry(threads[t].role, threads[t].content))
        /\ log' = Append(log, Entry(threads[t].role, threads[t].content))
        /\ threads' = [threads EXCEPT ![t].pc = "slice"]
        /\ UNCHANGED <<askFixed, memory_file, memory, server_process, processes,
                       pending_command, pending_command_reason>>

\* _append_history, line 197, right-hand side: self.chat_history[-self.max_history:]
HistorySlice ==
    \E t \in Workers :
        /\ threads[t].pc = "slice"
        /\ threads' = [threads EXCEPT ![t].pc = "store",
                                      ![t].slice = LastSlice(chat_history, max_history)]
        /\ UNCHANGED <<askFixed, memory_file, memory, chat_history, server_process, processes,
                       pending_command, pending_command_reason, log>>

\* _append_history, line 197, the assignment to self.chat_history
HistoryStore ==
    \E t \in Workers :
        /\ threads[t].pc = "store"
        /\ chat_history' = threads[t].slice
        /\ threads' = [threads EXCEPT ![t].pc = "save", ![t].slice = <<>>]
        /\ UNCHANGED <<askFixed, memory_file, memory, server_process, processes,
                       pending_command, pending_command_reason, log>>

\* _append_history, line 198: save_memory; the user entry is followed by
\* remember, the assistant entry by the return.
HistorySave ==
    \E t \in Workers :
        /\ threads[t].pc = "save"
        /\ memory' = SaveMemory(memory, chat_history)
        /\ threads' = [threads EXCEPT
                          ![t].pc = IF threads[t].role = "user" THEN "remember" ELSE "return"]
        /\ memory_file' = Dump(memory')
        /\ UNCHANGED <<askFixed, chat_history, server_process, processes,
                       pending_command, pending_command_reason, log>>

\* process_request, line 510, and the if-chain that selects the branch.
RememberRequest ==
    \E t \in Workers :
        /\ threads[t].pc = "remember"
        /\ memory' = Remember(memory, chat_history, "last_request", threads[t].input)
        /\ threads' = [threads EXCEPT ![t].pc = AskRoutes[threads[t].input]]
        /\ memory_file' = Dump(memory')
        /\ UNCHANGED <<askFixed, chat_history, server_process, processes,
                       pending_command, pending_command_reason, log>>

\* _confirm_command, lines 285-286
ConfirmCheck ==
    \E t \in Workers :
        /\ threads[t].pc = "confirm"
        /\ threads' = [threads EXCEPT
                          ![t] = IF Falsy(pending_command) THEN Result(@, NoPendingMsg)
                                 ELSE [@ EXCEPT !.pc = "confirm_read"]]
        /\ UNCHANGED <<askFixed, memory_file, memory, chat_history, server_process, processes,
                       pending_command, pending_command_reason, log>>

\* _confirm_command, line 287: cmd = self._pending_command
ConfirmRead ==
    \E t \in Workers :
        /\ threads[t].pc = "confirm_read"
        /\ threads' = [threads EXCEPT ![t].pc = "confirm_clear", ![t].cmd = pending_command]
        /\ UNCHANGED <<askFixed, memory_file, memory, chat_history, server_process, processes,
                       pending_command, pending_command_reason, log>>

\* _confirm_command, lines 288-289
ConfirmClear ==
    \E t \in Workers :
        /\ threads[t].pc = "confirm_clear"
        /\ pending_command' = NoneVal
        /\ pending_command_reason' = NoneVal
        /\ threads' = [threads EXCEPT ![t].pc = "confirm_run"]
        /\ UNCHANGED <<askFixed, memory_file, memory, chat_history, server_process, processes, log>>

\* _confirm_command, line 290: run_command(cmd); with cmd None subprocess.run
\* raises, which run_command reports as a failure to run.
ConfirmRun ==
    \E t \in Workers, proc \in ProcOutcomes :
        /\ threads[t].pc = "confirm_run"
        /\ Falsy(threads[t].cmd) => proc = "oserror"
        /\ threads' = [threads EXCEPT
                          ![t] = [Result(@, RunCommandOut(threads[t].cmd, proc)) EXCEPT
                                     !.ran = IF Falsy(threads[t].cmd) THEN <<>>
                                             ELSE <<threads[t].cmd>>]]
        /\ UNCHANGED <<askFixed, memory_file, memory, chat_history, server_process, processes,
                       pending_command, pending_command_reason, log>>

\* _cancel_command, lines 293-294
CancelCheck ==
    \E t \in Workers :
        /\ threads[t].pc = "cancel"
        /\ threads' = [threads EXCEPT
                          ![t] = IF Falsy(pending_command) THEN Result(@, NoPendingMsg)
                                 ELSE [@ EXCEPT !.pc = "cancel_clear"]]
        /\ UNCHANGED <<askFixed, memory_file, memory, chat_history, server_process, processes,
                       pending_command, pending_command_reason, log>>

\* _cancel_command, lines 295-297
CancelClear ==
    \E t \in Workers :
        /\ threads[t].pc = "cancel_clear"
        /\ pending_command' = NoneVal
        /\ pending_command_reason' = NoneVal
        /\ threads' = [threads EXCEPT ![t] = Result(@, CanceledMsg)]
        /\ UNCHANGED <<askFixed, memory_file, memory, chat_history, server_process, processes, log>>

\* The /serve branch, lines 562-586, up to the call it makes: the stop, the
\* port that is no number, or _serve_start, lines 401-408, whose checks of the
\* folder and of the handle end the request or lead to Popen.
ServeCheck ==
    \E t \in Workers :
        /\ threads[t].pc = "serve"
        /\ LET parts == Split(Strip(threads[t].input))
               folder == Unquote(IF Len(parts) = 1
                                 THEN Or(Get(memory, "last_served_folder", NoneVal), DefaultFolder)
                                 ELSE parts[2])
               port == IF Len(parts) = 1
                       THEN ParseInt(Or(Get(memory, "last_served_port", NoneVal), DefaultPort))
                       ELSE IF Len(parts) >= 3 THEN ParseInt(parts[3]) ELSE DefaultPort
           IN  threads' = [threads EXCEPT
                  ![t] = IF Len(parts) >= 2 /\ Lower(parts[2]) = kwStop
                         THEN [@ EXCEPT !.pc = "stop"]
                         ELSE IF port = NoneVal
                         THEN Result(@, <<"Port must be a number. Example: /serve restaurant-site 8000">>)
                         ELSE IF folder = <<>>
                         THEN Result(@, <<"Usage: /serve <folder> [port]">>)
                         ELSE IF folder \notin Directories
                         THEN Result(@, <<"Folder not found: ">> \o folder)
                         ELSE IF server_process # NoHandle /\ server_process \in processes
                         THEN Result(@, AlreadyRunningMsg)
                         ELSE [@ EXCEPT !.pc = "serve_popen", !.folder = folder, !.port = port]]
        /\ UNCHANGED <<askFixed, memory_file, memory, chat_history, server_process, processes,
                       pending_command, pending_command_reason, log>>

\* _serve_start, line 412, the call: Popen spawns the server, the process of
\* worker t, or raises.
ServePopen ==
    \E t \in Workers, popen \in PopenOutcomes :
        /\ threads[t].pc = "serve_popen"
        /\ processes' = IF popen = "started" THEN processes \cup {t} ELSE processes
        /\ threads' = [threads EXCEPT
                          ![t].pc = IF popen = "started" THEN "serve_store" ELSE "serve_failed"]
        /\ UNCHANGED <<askFixed, memory_file, memory, chat_history, server_process,
                       pending_command, pending_command_reason, log>>

\* _serve_start, line 412, the assignment to self._server_process
ServeStore ==
    \E t \in Workers :
        /\ threads[t].pc = "serve_store"
        /\ server_process' = t
        /\ threads' = [threads EXCEPT ![t].pc = "serve_remember"]
        /\ UNCHANGED <<askFixed, memory_file, memory, chat_history, processes,
                       pending_command, pending_command_reason, log>>

\* _serve_start, lines 419-421
ServeFailed ==
    \E t \in Workers :
        /\ threads[t].pc = "serve_failed"
        /\ server_process' = NoHandle
        /\ threads' = [threads EXCEPT ![t] = Result(@, <<"Failed to start server: ", "OSError">>)]
        /\ UNCHANGED <<askFixed, memory_file, memory, chat_history, processes,
                       pending_command, pending_command_reason, log>>

\* _serve_start, lines 423-430
ServeRemember ==
    \E t \in Workers :
        /\ threads[t].pc = "serve_remember"
        /\ memory' = SaveMemory(Put(Put(memory, "last_served_folder", threads[t].folder),
                                    "last_served_port", threads[t].port), chat_history)
        /\ threads' = [threads EXCEPT
                          ![t] = Result(@, <<"Serving '">> \o threads[t].folder
                                           \o <<"' on http://localhost:">> \o threads[t].port
                                           \o <<"\n", "Stop with: /serve stop">>)]
        /\ memory_file' = Dump(memory')
        /\ UNCHANGED <<askFixed, chat_history, server_process, processes,
                       pending_command, pending_command_reason, log>>

\* _serve_stop, lines 433-435
StopCheck ==
    \E t \in Workers :
        /\ threads[t].pc = "stop"
        /\ IF server_process = NoHandle \/ server_process \notin processes
           THEN /\ server_process' = NoHandle
                /\ threads' = [threads EXCEPT ![t] = Result(@, NoServerMsg)]
           ELSE /\ server_process' = server_process
                /\ threads' = [threads EXCEPT ![t].pc = "stop_terminate"]
        /\ UNCHANGED <<askFixed, memory_file, memory, chat_history, processes,
                       pending_command, pending_command_reason, log>>

\* _serve_stop, lines 437-444: terminate and wait (kill where that raises) on
\* the process self._server_process refers to now; on None the AttributeError
\* is swallowed.
StopTerminate ==
    \E t \in Workers :
        /\ threads[t].pc = "stop_terminate"
        /\ processes' = processes \ {server_process}
        /\ threads' = [threads EXCEPT ![t].pc = "stop_clear"]
        /\ UNCHANGED <<askFixed, memory_file, memory, chat_history, server_process,
                       pending_command, pending_command_reason, log>>

\* _serve_stop, lines 445-448
StopClear ==
    \E t \in Workers :
        /\ threads[t].pc = "stop_clear"
        /\ server_process' = NoHandle
        /\ threads' = [threads EXCEPT ![t] = Result(@, <<"Server stopped.">>)]
        /\ UNCHANGED <<askFixed, memory_file, memory, chat_history, processes,
                       pending_command, pending_command_reason, log>>

\* process_request returns the result and ask answers with it.
Return ==
    \E t \in Workers :
        /\ threads[t].pc = "return"
        /\ threads' = [threads EXCEPT ![t].pc = "done", ![t].response = threads[t].out]
        /\ UNCHANGED <<askFixed, memory_file, memory, chat_history, server_process, processes,
                       pending_command, pending_command_reason, log>>

NextAsk ==
    \/ Ask
    \/ HistoryAppend
    \/ HistorySlice
    \/ HistoryStore
    \/ HistorySave
    \/ RememberRequest
    \/ ConfirmCheck
    \/ ConfirmRead
    \/ ConfirmClear
    \/ ConfirmRun
    \/ CancelCheck
    \/ CancelClear
    \/ ServeCheck
    \/ ServePopen
    \/ ServeStore
    \/ ServeFailed
    \/ ServeRemember
    \/ StopCheck
    \/ StopTerminate
    \/ StopClear
    \/ Return

SpecAsk == InitAsk /\ [][NextAsk]_vars


\* ------------------------------------------- the planning path on its own
\* The longest plan the planner is taken to emit.
MaxPlanLen == 3

World == <<"w", "o">>

\* The actions a plan is made of: each tool with its required field, without
\* it, and, for reply, with an empty text; a tool the executor does not know,
\* an action that names no tool, and an element that is a JSON string.
PlanActions == {
    [tool |-> <<"reply">>, text |-> Hello],
    [tool |-> <<"reply">>, text |-> World],
    [tool |-> <<"reply">>, text |-> <<>>],
    [tool |-> <<"create_file">>, content |-> Hello],
    [tool |-> <<"create_file">>, path |-> NotesFile, content |-> Hello],
    [tool |-> <<"run_command">>],
    [tool |-> <<"run_command">>, command |-> Dir],
    [tool |-> <<"web_search">>],
    [tool |-> <<"web_search">>, query |-> Hello],
    [tool |-> <<"zip">>],
    [text |-> Hello],
    [nonobject |-> <<"oops">>] }

\* The planner's answer that is the JSON text of a plan with these actions,
\* and what json.loads makes of it.
PlanOutput(actions) ==
    [kind |-> "text", raw |-> <<"{", "\"type\": \"plan\", \"actions\": ">>, json |-> "object",
     plan |-> [type |-> <<"plan">>, actions |-> actions]]

\* What the planner can answer: the outputs above, every plan of up to
\* MaxPlanLen actions, a sentence, nothing, and broken JSON behind a blank.
PlanTexts ==
    PlannerOutputs
    \cup {PlanOutput(a) : a \in SeqsUpTo(PlanActions, MaxPlanLen)}
    \cup {[kind |-> "text", raw |-> <<"Sure, here's your answer.">>, json |-> "error",
           plan |-> [none |-> NoneVal]],
          [kind |-> "text", raw |-> <<>>, json |-> "error", plan |-> [none |-> NoneVal]],
          [kind |-> "text", raw |-> <<" ", "{", "hello">>, json |-> "error",
           plan |-> [none |-> NoneVal]]}

\* The planner's answer is executed as a plan: lines 640-643.
IsPlan(planned) ==
    /\ planned.kind = "text"
    /\ StartsWith(Strip(planned.raw), <<"{">>)
    /\ planned.json = "object"
    /\ Get(planned.plan, "type", NoneVal) = <<"plan">>

\* The plan has an element that is no JSON object: the executor raises there.
Aborts(planned) ==
    /\ IsPlan(planned)
    /\ \E i \in DOMAIN planned.plan.actions : "nonobject" \in DOMAIN planned.plan.actions[i]

\* What the session is asked: a sentence, and the keywords of the directives
\* that take an argument, sent without one (the last with a trailing blank).
PlanInputs ==
    {Hello, Strip(kwRunSp), Strip(kwOpenSp), Strip(kwRememberSp), Strip(kwSearchSp),
     Strip(kwModelSp), kwRunSp}

\* A fresh session on either host is asked something that no directive branch
\* takes (the keywords with every planner answer of PlannerOutputs);
\* the planner, the primary model and the tools answer in every way they can.
InitPlan ==
    /\ \E host \in {SearchHost, MemoryHost} :
          /\ tavily_api_key = host.tavily_api_key
          /\ chroma_available = host.chroma
    /\ memory = EmptyMemory
    /\ chat_history = <<>>
    /\ max_history = DefaultMaxHistory
    /\ model_name = <<"gpt-oss:120b-cloud">>
    /\ planner_model_name = <<"qwen3-coder:480b-cloud">>
    /\ rag_docs = <<>>
    /\ server_process = NoHandle
    /\ processes = {}
    /\ pending_command = NoneVal
    /\ pending_command_reason = NoneVal
    /\ nreq = 0
    /\ last = InitLast
    /\ canceled = {}
    /\ NoGate
    /\ NoTools
    /\ NoThreads
    /\ memory_file = Dump(memory)
    /\ session = "up"
    /\ llm = model_name
    /\ planner_llm = planner_model_name
    /\ plan_out = <<>>
    /\ \E u \in PlanInputs, planned \in PlanTexts :
          \E reply \in (IF (IsPlan(planned) /\ ~Aborts(planned)) \/ planned.kind = "raise"
                        THEN {[kind |-> "text", raw |-> <<"H", "i", "!">>]} ELSE ReplyOutputs),
             proc \in (IF <<"run_command">> \in ToolsOf(planned) THEN ProcOutcomes ELSE {"exit"}),
             writing \in (IF <<"create_file">> \in ToolsOf(planned) THEN WriteOutcomes ELSE {"written"}),
             searching \in (IF <<"web_search">> \in ToolsOf(planned) THEN SearchOutcomes ELSE {"results"}) :
               /\ (u # Hello => planned \in PlannerOutputs)
               /\ plan_in = [user_input |-> u, planned |-> planned, reply |-> reply,
                             embed |-> "vector", proc |-> proc, writing |-> writing,
                             searching |-> searching]

\* What process_request returns for a branch with effects e: its result, or the
\* error text of the catch-all at lines 679-680.
Response(e) == IF e.raised THEN <<"Error processing request: ">> \o e.out ELSE e.out

\* process_request on the request, which takes the planning path.
PlanRequest ==
    /\ plan_out = <<>>
    /\ RouteOf(plan_in.user_input) = "plan"
    /\ \E e \in {PlanPath(Start(plan_in.user_input), plan_in.user_input, plan_in.planned,
                          plan_in.reply, plan_in.embed, plan_in.proc, plan_in.writing,
                          plan_in.searching)} :
          plan_out' = <<[e EXCEPT !.out = Response(e)]>>
    /\ UNCHANGED <<plan_in, memory, chat_history, max_history, model_name,
                   planner_model_name, tavily_api_key, chroma_available, rag_docs,
                   server_process, processes, pending_command, pending_command_reason,
                   nreq, last, canceled, gateVars, toolVars, askVars, bootVars, llmVars>>

NextPlan == PlanRequest

SpecPlan == InitPlan /\ [][NextPlan]_vars

\* ---------------------------------------------------- startup and restart
\* A max_history configured above the number of entries save_memory stores.
LongHistoryCfg == 40

\* The history a session that had served many requests left in the file.
SavedHistory ==
    [i \in 1..SavedHistoryLimit |->
        Entry(IF i % 2 = 1 THEN "user" ELSE "assistant", <<"old", ToString(i)>>)]

\* What a starting session can find as agent_memory.json: no file, a file that
\* is no JSON, JSON that is no object, objects whose values have a type the
\* constructor does not convert, and files earlier sessions wrote.
StartupFiles == {
    [kind |-> "absent"],
    [kind |-> "garbage"],
    [kind |-> "json", value |-> [t |-> "list", v |-> <<>>]],
    [kind |-> "json",
     value |-> [t |-> "obj", v |-> [max_history |-> [t |-> "str", v |-> <<"m", "a", "n", "y">>]]]],
    [kind |-> "json",
     value |-> [t |-> "obj", v |-> [max_history |-> [t |-> "null", v |-> NoneVal]]]],
    [kind |-> "json",
     value |-> [t |-> "obj", v |-> [temperature |-> [t |-> "str", v |-> <<"h", "o", "t">>]]]],
    Dump([model_name |-> <<"m", "2">>]),
    Dump([max_history |-> MaxHistoryCfg, chat_history |-> <<>>]),
    Dump([max_history |-> LongHistoryCfg, chat_history |-> SavedHistory]) }

\* No session yet: the process is about to construct its SimpleAgent.
InitBoot ==
    /\ memory_file \in StartupFiles
    /\ session = "none"
    /\ tavily_api_key = MemoryHost.tavily_api_key
    /\ chroma_available = MemoryHost.chroma
    /\ memory = EmptyMemory
    /\ chat_history = <<>>
    /\ max_history = DefaultMaxHistory
    /\ model_name = NoneVal
    /\ planner_model_name = NoneVal
    /\ llm = NoneVal
    /\ planner_llm = NoneVal
    /\ rag_docs = <<>>
    /\ server_process = NoHandle
    /\ processes = {}
    /\ pending_command = NoneVal
    /\ pending_command_reason = NoneVal
    /\ nreq = 0
    /\ last = InitLast
    /\ canceled = {}
    /\ NoGate
    /\ NoTools
    /\ NoPlan
    /\ NoThreads

\* SimpleAgent() in get_agent: __init__ runs on the file, and either returns
\* or raises.
Construct ==
    LET b == Boot(memory_file)
    IN  IF b.crashed
        THEN /\ session' = "crashed"
             /\ UNCHANGED <<memory, chat_history, max_history, model_name, planner_model_name,
                            llmVars>>
        ELSE /\ session' = "up"
             /\ memory' = b.memory
             /\ chat_history' = b.chat_history
             /\ max_history' = b.max_history
             /\ model_name' = b.model_name
             /\ planner_model_name' = b.planner_model_name
             /\ llm' = b.model_name
             /\ planner_llm' = b.planner_model_name

\* The first start of the process.
Startup ==
    /\ session = "none"
    /\ Construct
    /\ UNCHANGED <<memory_file, tavily_api_key, chroma_available, rag_docs, server_process,
                   processes, pending_command, pending_command_reason, nreq, last, canceled,
                   gateVars, toolVars, planVars, askVars>>

\* The process ends after a request and is started again: the new session has
\* the fields __init__ gives it, no pending command and no server handle.
Restart ==
    /\ session = "up"
    /\ nreq > 0
    /\ last.route # "restart"
    /\ Construct
    /\ server_process' = NoHandle
    /\ pending_command' = NoneVal
    /\ pending_command_reason' = NoneVal
    /\ last' = [InitLast EXCEPT !.route = "restart"]
    /\ UNCHANGED <<memory_file, tavily_api_key, chroma_available, rag_docs, processes, nreq,
                   canceled, gateVars, toolVars, planVars, askVars>>

NextBoot ==
    \/ Startup
    \/ Restart
    \/ Model
    \/ Planner
    \/ Serve
    \/ Plan

SpecBoot == InitBoot /\ [][NextBoot]_vars


\* --------------------------------------------------------- the tool server
\* py_tool_server serves ls, read_file and grep over HTTP.  A path of the host
\* is the tuple of its names from the root; a path as a caller writes it is a
\* tuple of components, "/" first when it is absolute, with "." and ".." where
\* the caller put them, and <<>> for the empty string.
Cwd == <<"srv">>
DataDir == <<"srv", "data">>
SubDir == <<"srv", "data", "sub">>
PasswdFile == <<"etc", "passwd">>

\* The directories, the files and the symbolic links of the host.
ToolDirs == {<<>>, <<"srv">>, DataDir, SubDir, <<"etc">>}
ToolFiles == {DataDir \o <<"a.txt">>, DataDir \o <<"big.bin">>, SubDir \o <<"b.py">>, PasswdFile}
Symlinks == (DataDir \o <<"link">>) :> PasswdFile

\* st_size of a file, and what read_text returns for it.
SizeOf(file) == IF file = DataDir \o <<"big.bin">> THEN 3 ELSE 1
ContentOf(file) == <<"content of ">> \o file

\* Path.resolve from the directory acc: "." stays, ".." goes up, a symbolic
\* link is replaced by its target.
RECURSIVE ResolveFrom(_, _)
ResolveFrom(acc, rest) ==
    IF rest = <<>> THEN acc
    ELSE IF Head(rest) = "." THEN ResolveFrom(acc, Tail(rest))
    ELSE IF Head(rest) = ".."
    THEN ResolveFrom(IF acc = <<>> THEN acc ELSE SubSeq(acc, 1, Len(acc) - 1), Tail(rest))
    ELSE LET next == Append(acc, Head(rest))
         IN  IF next \in DOMAIN Symlinks THEN ResolveFrom(Symlinks[next], Tail(rest))
             ELSE ResolveFrom(next, Tail(rest))

\* Path(path).expanduser().resolve()
Resolve(path) ==
    IF path # <<>> /\ Head(path) = "/" THEN ResolveFrom(<<>>, Tail(path))
    ELSE ResolveFrom(Cwd, path)

\* The written form of a path of the host.
Written(p) == <<"/">> \o p

\* _has_path_prefix: equal after resolve, or relative_to succeeds.
HasPathPrefix(p, base) ==
    LET rp == Resolve(Written(p))
        rb == Resolve(Written(base))
    IN  \/ rp = rb
        \/ Len(rb) <= Len(rp) /\ SubSeq(rp, 1, Len(rb)) = rb

\* An allow-list check on the path as written, without resolve.
IsAllowedUnresolved(path, allow_dirs) ==
    IF path = <<>> THEN [abs |-> NoneVal, ok |-> FALSE]
    ELSE LET abs == Resolve(path)
             asked == IF Head(path) = "/" THEN Tail(path) ELSE Cwd \o path
         IN  [abs |-> abs,
              ok |-> \E i \in DOMAIN allow_dirs :
                        LET base == Resolve(allow_dirs[i])
                        IN  Len(base) <= Len(asked) /\ SubSeq(asked, 1, Len(base)) = base]

\* _is_allowed: the resolved path, and whether an allow-listed directory holds it.
IsAllowed(path, allow_dirs) ==
    IF path = <<>> THEN [abs |-> NoneVal, ok |-> FALSE]
    ELSE LET abs == Resolve(path)
         IN  [abs |-> abs,
              ok |-> \E i \in DOMAIN allow_dirs : HasPathPrefix(abs, Resolve(allow_dirs[i]))]

\* The error output of a tool.
ToolError(kind) == [error |-> [kind |-> kind]]

\* The entries of a directory.
ChildrenOf(dir) ==
    {p \in ToolDirs \cup ToolFiles \cup DOMAIN Symlinks :
        Len(p) = Len(dir) + 1 /\ SubSeq(p, 1, Len(dir)) = dir}

\* LSTool._run
LSToolRun(cfg, args) ==
    LET path == Get(args, "path", <<".">>)
        a == IsAllowed(IF path = <<>> THEN <<".">> ELSE path, cfg.allow_dirs)
    IN  IF ~cfg.enable_fs THEN ToolError("fs_disabled")
        ELSE IF a.abs = NoneVal \/ ~a.ok THEN ToolError("path_not_allowed")
        ELSE IF a.abs \notin ToolDirs THEN ToolError("not_a_directory")
        ELSE [path |-> a.abs, items |-> {p[Len(p)] : p \in ChildrenOf(a.abs)}]

\* ReadFileTool._run; reading is what read_text does.
ReadFileToolRun(cfg, args, reading) ==
    LET a == IsAllowed(args.path, cfg.allow_dirs)
    IN  IF ~cfg.enable_fs THEN ToolError("fs_disabled")
        ELSE IF a.abs = NoneVal \/ ~a.ok THEN ToolError("path_not_allowed")
        ELSE IF a.abs \notin ToolFiles THEN ToolError("not_a_file")
        ELSE IF SizeOf(a.abs) > cfg.max_read_bytes THEN ToolError("file_too_large")
        ELSE IF reading = "oserror" THEN ToolError("read_failed")
        ELSE [path |-> a.abs, content |-> ContentOf(a.abs)]


\* is_file and stat follow a symbolic link to its target.
TargetOf(p) == Resolve(Written(p))

\* Path.suffix of the files, as characters.
SuffixOf(p) ==
    IF p[Len(p)] = "a.txt" THEN <<".", "t", "x", "t">>
    ELSE IF p[Len(p)] = "big.bin" THEN <<".", "b", "i", "n">>
    ELSE IF p[Len(p)] = "b.py" THEN <<".", "p", "y">>
    ELSE <<>>

\* text.splitlines() of the files.
LinesOf(file) ==
    IF file = PasswdFile THEN <<"root:x", "daemon:x">>
    ELSE IF file = SubDir \o <<"b.py">> THEN <<"import x", "pass", "x = 1">>
    ELSE <<"x marks", "the spot", "x", "xx">>

\* The patterns callers send, and rx.search(line) for those that compile.
PatternX == <<"x">>
PatternSpot == <<"spot|pass$">>
PatternBad == <<"(">>
RxSearch(pattern, line) ==
    IF pattern = PatternX THEN line # "the spot" /\ line # "pass"
    ELSE line \in {"the spot", "pass"}

\* The orders in which rglob("*") can discover the entries of the host.
Listings == {
    << <<"etc">>, PasswdFile, <<"srv">>, DataDir, DataDir \o <<"a.txt">>,
       DataDir \o <<"big.bin">>, DataDir \o <<"link">>, SubDir, SubDir \o <<"b.py">> >>,
    << <<"srv">>, DataDir, SubDir, SubDir \o <<"b.py">>, DataDir \o <<"link">>,
       DataDir \o <<"big.bin">>, DataDir \o <<"a.txt">>, <<"etc">>, PasswdFile >> }

\* abs_root.rglob("*"): the entries below the root, in the order of the listing.
RGlob(root, listing) ==
    LET Below(p) == Len(p) > Len(root) /\ SubSeq(p, 1, Len(root)) = root
    IN  SelectSeq(listing, Below)

\* The set inc built from includes: trimmed, lower case, with a leading dot.
IncOf(includes) ==
    {IF StartsWith(Lower(Strip(includes[i])), <<".">>) THEN Lower(Strip(includes[i]))
     ELSE <<".">> \o Lower(Strip(includes[i])) :
        i \in {j \in DOMAIN includes : Strip(includes[j]) # <<>>}}

\* The loop over the lines of one file that goes on after the limit is reached.
RECURSIVE GrepLinesUnchecked(_, _, _, _, _, _)
GrepLinesUnchecked(cfg, pattern, p, lines, i, matches) ==
    IF i > Len(lines) THEN matches
    ELSE GrepLinesUnchecked(cfg, pattern, p, lines, i + 1,
                            IF RxSearch(pattern, lines[i])
                            THEN Append(matches, [file |-> p, line |-> i, text |-> lines[i]])
                            ELSE matches)

\* GrepTool._run, the loop over the lines of one file, from line i on.
RECURSIVE GrepLines(_, _, _, _, _, _)
GrepLines(cfg, pattern, p, lines, i, matches) ==
    IF i > Len(lines) THEN matches
    ELSE IF RxSearch(pattern, lines[i])
    THEN LET found == Append(matches, [file |-> p, line |-> i, text |-> lines[i]])
         IN  IF Len(found) >= cfg.max_grep_matches THEN found
             ELSE GrepLines(cfg, pattern, p, lines, i + 1, found)
    ELSE GrepLines(cfg, pattern, p, lines, i + 1, matches)

\* GrepTool._run, the loop over the entries rglob yields.
RECURSIVE GrepFiles(_, _, _, _, _, _)
GrepFiles(cfg, pattern, inc, reading, entries, matches) ==
    IF entries = <<>> THEN matches
    ELSE IF Len(matches) >= cfg.max_grep_matches THEN matches
    ELSE LET p == Head(entries)
             skip == \/ TargetOf(p) \notin ToolFiles
                     \/ inc # {} /\ Lower(SuffixOf(p)) \notin inc
                     \/ SizeOf(TargetOf(p)) > cfg.max_grep_bytes
                     \/ reading = "oserror"
         IN  GrepFiles(cfg, pattern, inc, reading, Tail(entries),
                       IF skip THEN matches
                       ELSE GrepLines(cfg, pattern, p, LinesOf(TargetOf(p)), 1, matches))

\* GrepTool._run
GrepToolRun(cfg, args, reading, listing) ==
    LET root == Get(args, "root", <<".">>)
        a == IsAllowed(IF root = <<>> THEN <<".">> ELSE root, cfg.allow_dirs)
    IN  IF ~cfg.enable_fs THEN ToolError("fs_disabled")
        ELSE IF a.abs = NoneVal \/ ~a.ok THEN ToolError("path_not_allowed")
        ELSE IF a.abs \notin ToolDirs THEN ToolError("not_a_directory")
        ELSE IF args.pattern = <<>> THEN ToolError("missing_pattern")
        ELSE IF args.pattern = PatternBad THEN ToolError("invalid_pattern")
        ELSE [root |-> a.abs, pattern |-> args.pattern,
              matches |-> GrepFiles(cfg, args.pattern, IncOf(Get(args, "includes", <<>>)),
                                    reading, RGlob(a.abs, listing), <<>>)]

\* handle_tools_run: the status and the body of the response.  A body that is
\* no JSON, a tool the server does not have and arguments the tool's schema
\* rejects are answered without the tool being run.
HandleToolsRun(req) ==
    LET args == IF "args" \in DOMAIN req.body THEN req.body.args ELSE <<>>
        name == Get(req.body, "name", "")
        Reply(out) == [status |-> IF "error" \in DOMAIN out THEN 400 ELSE 200, body |-> out]
    IN  IF "garbage" \in DOMAIN req.body THEN Reply(ToolError("invalid_json"))
        ELSE IF name \notin {"ls", "read_file", "grep"} THEN Reply(ToolError("unknown_tool"))
        ELSE IF name = "ls" THEN Reply(LSToolRun(req.cfg, args))
        ELSE IF name = "read_file"
        THEN IF "path" \notin DOMAIN args THEN Reply(ToolError("tool_failed"))
             ELSE Reply(ReadFileToolRun(req.cfg, args, req.reading))
        ELSE IF "pattern" \notin DOMAIN args THEN Reply(ToolError("tool_failed"))
             ELSE Reply(GrepToolRun(req.cfg, args, req.reading, req.listing))


\* The largest max_grep_matches the server is configured with.
MaxGrepLimit == 3

\* The allow-lists of PYTOOLS_ALLOW_DIRS: the default ".", one directory, and
\* a directory with a symbolic link.
AllowLists ==
    { << <<".">> >>, << Written(DataDir) >>,
      << Written(SubDir), Written(DataDir \o <<"link">>) >> }

\* load_config: the configurations the server runs under.
ToolConfigs ==
    {[enable_fs |-> e, allow_dirs |-> d, max_read_bytes |-> 2, max_grep_bytes |-> 2,
      max_grep_matches |-> k] : e \in BOOLEAN, d \in AllowLists, k \in 0..MaxGrepLimit}

\* The paths callers ask for: none, relative ones, directories and files inside
\* and outside the allow-lists, one that climbs out with "..", one through the
\* symbolic link, one that does not exist.
RequestPaths ==
    { <<>>, <<".">>, <<"data">>, Written(DataDir), Written(SubDir), Written(<<"etc">>),
      Written(DataDir \o <<"a.txt">>), Written(DataDir \o <<"big.bin">>),
      Written(SubDir \o <<"b.py">>), Written(PasswdFile),
      Written(DataDir \o <<"..", "..", "etc", "passwd">>),
      Written(DataDir \o <<"link">>), Written(DataDir \o <<"none">>) }

GrepRoots == {<<>>, <<".">>, Written(DataDir), Written(SubDir), Written(<<"etc">>),
              Written(DataDir \o <<"a.txt">>)}

GrepIncludes == {<<>>, << <<"p", "y">> >>, << <<" ">>, <<".", "T", "X", "T">> >>}

\* The JSON bodies posted to /tools/run.
ToolBodies ==
    {[garbage |-> TRUE], [name |-> "ls"], [name |-> "read_file"],
     [name |-> "grep", args |-> [root |-> <<".">>]]}
    \cup {[name |-> n, args |-> [path |-> p]] : n \in {"ls", "read_file", "rm"}, p \in RequestPaths}
    \cup {[name |-> "grep", args |-> [root |-> r, pattern |-> pat, includes |-> inc]] :
             r \in GrepRoots, pat \in {<<>>, PatternX, PatternSpot, PatternBad},
             inc \in GrepIncludes}

\* A request, the configuration it meets and what the file system does; the
\* limit on matches and the order of discovery vary for grep alone.
ToolRequests ==
    {r \in [body : ToolBodies, cfg : ToolConfigs, reading : {"text", "oserror"},
            listing : Listings] :
        Get(r.body, "name", "") # "grep" =>
            /\ r.cfg.max_grep_matches = MaxGrepLimit
            /\ r.listing = CHOOSE l \in Listings : TRUE
            /\ (Get(r.body, "name", "") # "read_file" => r.reading = "text")}

InitTools ==
    /\ tool_req \in ToolRequests
    /\ tool_resp = <<>>
    /\ NoGate
    /\ FreshSession
    /\ NoPlan
    /\ NoThreads

\* POST /tools/run
ToolsRun ==
    /\ tool_resp = <<>>
    /\ tool_resp' = <<HandleToolsRun(tool_req)>>
    /\ UNCHANGED <<tool_req, memory, chat_history, max_history, model_name,
                   planner_model_name, tavily_api_key, chroma_available, rag_docs,
                   server_process, processes, pending_command, pending_command_reason,
                   nreq, last, canceled, gateVars, planVars, askVars, bootVars, llmVars>>

NextTools == ToolsRun

SpecTools == InitTools /\ [][NextTools]_vars


\* ================================================================= claims
\* The command a /run request names: the text after the keyword, trimmed.
RunArg(user_input) == Strip(Drop(Strip(user_input), 5))

\* t occurs in text as a run of consecutive elements.
ContainsText(text, t) ==
    \E i \in 0..(Len(text) - Len(t)) : SubSeq(text, i + 1, i + Len(t)) = t

\* The last request was a /run naming a command outside the allow-list.
LastQueued ==
    /\ last.route = "run"
    /\ RunArg(last.input) # <<>>
    /\ ~IsCommandAllowed(RunArg(last.input))

\* C1: every shell command a request executes either passes the allow-list or is
\* the pending command released by /confirm, on every path of process_request,
\* the run_command actions of a plan included.
C1_EveryCommandGated ==
    \A i \in DOMAIN last.ran :
        \/ IsCommandAllowed(last.ran[i])
        \/ /\ last.route = "confirm"
           /\ ~Falsy(last.pending_before)
           /\ last.ran[i] = last.pending_before

\* The text of c between its first and its last non-blank character.
Trimmed(c) ==
    LET solid == {i \in 1..Len(c) : c[i] \notin Whitespace}
    IN  IF solid = {} THEN <<>>
        ELSE SubSeq(c, CHOOSE i \in solid : \A j \in solid : i <= j,
                       CHOOSE i \in solid : \A j \in solid : i >= j)

\* p is an initial segment of t.
HasPrefix(t, p) == Len(p) <= Len(t) /\ \A i \in 1..Len(p) : t[i] = p[i]

\* C2: _is_command_allowed(c) is true exactly when the trimmed, lowercased text
\* of c starts with an allow-listed prefix, whatever follows the prefix; an empty
\* or blank command is not allowed.
C2_AllowedIffPrefix ==
    gate_result # <<>> =>
        /\ gate_result[1] <=>
              \E p \in Range(allowed_command_prefixes) : HasPrefix(Lower(Trimmed(gate_cmd)), p)
        /\ Trimmed(gate_cmd) = <<>> => gate_result[1] = FALSE

\* A padded upper-case command with arguments after the prefix was allowed.
C2_Witness ==
    /\ gate_result = <<TRUE>>
    /\ Head(gate_cmd) \in Whitespace
    /\ Lower(gate_cmd) # gate_cmd
    /\ \E p \in Range(allowed_command_prefixes) : Len(Trimmed(gate_cmd)) > Len(p) + 2

\* C3: a session holds no pending command, or one with its reason; a disallowed
\* /run replaces whatever was pending, so after queuing A and then B exactly B
\* is pending, with B's reason.
C3_OnePendingLatestWins ==
    /\ \/ pending_command = NoneVal /\ pending_command_reason = NoneVal
       \/ /\ ~Falsy(pending_command)
          /\ ~IsCommandAllowed(pending_command)
          /\ pending_command_reason = NotInAllowlist
    /\ LastQueued =>
          /\ pending_command = RunArg(last.input)
          /\ pending_command_reason = NotInAllowlist

\* B was queued while a different command A was pending.
C3_Witness ==
    /\ LastQueued
    /\ ~Falsy(last.pending_before)
    /\ last.pending_before # RunArg(last.input)
    /\ pending_command = RunArg(last.input)

\* C4: /confirm with a command pending executes exactly that command, once, and
\* clears the pending command, whatever the outcome of the execution; a /confirm
\* that follows a /confirm executes nothing and returns the no-pending result.
C4_ConfirmRunsOnceAndClears ==
    /\ (last.route = "confirm" /\ ~Falsy(last.pending_before)) =>
          /\ last.ran = <<last.pending_before>>
          /\ last.out \in {RunCommandOut(last.pending_before, o) : o \in ProcOutcomes}
          /\ pending_command = NoneVal
          /\ pending_command_reason = NoneVal
    /\ (last.route = "confirm" /\ last.prev_route = "confirm") =>
          /\ last.ran = <<>>
          /\ last.out = NoPendingMsg
          /\ ~last.raised

\* A /confirm followed the /confirm that ran a command which timed out.
C4_Witness ==
    /\ last.route = "confirm"
    /\ last.prev_route = "confirm"
    /\ ~Falsy(last.prev_ran)
    /\ \E i \in 1..Len(chat_history) :
          chat_history[i] = Entry("assistant", RunCommandOut(last.prev_ran[1], "timeout"))

\* A step that serves /confirm while no command is pending.
ConfirmWithNonePending ==
    /\ nreq' = nreq + 1
    /\ last'.route = "confirm"
    /\ Falsy(pending_command)

\* C5 as stated: confirming with nothing pending returns the no-pending result,
\* executes nothing and leaves the session state unchanged.
C5_ConfirmNoneChangesNothing ==
    [][ConfirmWithNonePending =>
          /\ last'.out = NoPendingMsg
          /\ last'.ran = <<>>
          /\ UNCHANGED <<memory, chat_history, max_history, model_name, planner_model_name,
                         rag_docs, server_process, processes, pending_command,
                         pending_command_reason>>]_vars

\* m2 is m1 but for the keys in keys.
SameBut(m1, m2, keys) ==
    /\ DOMAIN m1 \ keys = DOMAIN m2 \ keys
    /\ \A k \in DOMAIN m1 \ keys : m1[k] = m2[k]

\* C5, amended: confirming with nothing pending returns the no-pending result,
\* not an error, executes nothing, and changes nothing but the chat history, to
\* which the request and its result are appended, and the memory's last_request
\* and saved chat history.
C5_ConfirmNoneOnlyLogs ==
    [][ConfirmWithNonePending =>
          /\ last'.out = NoPendingMsg
          /\ ~last'.raised
          /\ last'.ran = <<>> /\ last'.wrote = <<>> /\ last'.invoked = <<>>
          /\ UNCHANGED <<max_history, model_name, planner_model_name, rag_docs,
                         server_process, processes, pending_command, pending_command_reason,
                         tavily_api_key, chroma_available>>
          /\ last'.appended = <<Entry("user", last'.input), Entry("assistant", NoPendingMsg)>>
          /\ SameBut(memory, memory', {"last_request", "chat_history"})]_vars

\* /confirm was served with nothing pending.
C5_Witness ==
    /\ last.route = "confirm"
    /\ Falsy(last.pending_before)
    /\ last.out = NoPendingMsg
    /\ Len(chat_history) >= 2


\* C6: /cancel with a command pending clears it without executing it, and the
\* canceled command is not executed afterwards unless it is queued again;
\* /cancel with nothing pending returns the no-pending result.
C6_CanceledNeverRuns ==
    /\ (last.route = "cancel" /\ ~Falsy(last.pending_before)) =>
          /\ pending_command = NoneVal
          /\ pending_command_reason = NoneVal
          /\ last.ran = <<>>
          /\ last.out = CanceledMsg
    /\ (last.route = "cancel" /\ Falsy(last.pending_before)) =>
          /\ last.ran = <<>>
          /\ last.out = NoPendingMsg
    /\ \A i \in DOMAIN last.ran : last.ran[i] \notin last.canceled_before

\* C7: a pending command does not expire: every request other than /confirm,
\* /cancel and a /run of a disallowed command leaves the pending command and its
\* reason as they were, whether it runs an allowed command, executes a plan,
\* replies, handles another directive or ends in an error.
C7_PendingPersists ==
    (last.route \notin {"none", "confirm", "cancel"} /\ ~LastQueued) =>
        /\ pending_command = last.pending_before
        /\ pending_command_reason = last.reason_before

\* A command stayed pending through a plan that ran a command.
C7_Witness ==
    /\ ~Falsy(pending_command)
    /\ pending_command = last.pending_before
    /\ last.branch = "executed_plan"
    /\ last.ran # <<>>

\* C8: /run with an allowed command executes it within the request and queues
\* nothing; /run with a disallowed command executes nothing within the request,
\* makes the command the pending one, and answers with a confirmation prompt
\* that names the reason.
C8_RunAllowedOrQueued ==
    (last.route = "run" /\ RunArg(last.input) # <<>>) =>
        IF IsCommandAllowed(RunArg(last.input))
        THEN /\ last.ran = <<RunArg(last.input)>>
             /\ last.out \in {RunCommandOut(RunArg(last.input), o) : o \in ProcOutcomes}
             /\ pending_command = last.pending_before
        ELSE /\ last.ran = <<>>
             /\ pending_command = RunArg(last.input)
             /\ Head(last.out) = "Command requires confirmation.\n"
             /\ ContainsText(last.out, <<"Reason: ">> \o pending_command_reason)
             /\ ContainsText(last.out, <<"Pending: ">> \o RunArg(last.input))
             /\ ~last.raised

\* A disallowed command was queued by /run and not run.
C8_Witness ==
    /\ LastQueued
    /\ last.ran = <<>>
    /\ pending_command = RunArg(last.input)
    /\ pending_command_reason = NotInAllowlist

\* C9: after one append or more the chat history holds at most max_history
\* entries, for every configured max_history and every loaded history, and
\* they are the most recent entries in insertion order.
C9_HistoryCapped ==
    nreq >= 1 =>
        /\ Len(chat_history) <= max_history
        /\ Len(last.appended) >= Len(chat_history) =>
              chat_history = SubSeq(last.appended,
                                    Len(last.appended) - Len(chat_history) + 1,
                                    Len(last.appended))

\* C10: a request handled by a directive branch appends its input as a user
\* entry and then its result as an assistant entry before it returns, in every
\* directive branch and for every outcome of the branch.
C10_DirectiveAppendsBoth ==
    last.route \notin {"none", "plan"} =>
        last.appended = <<Entry("user", last.input), Entry("assistant", last.out)>>


\* ------------------------------------------------ the server's lifecycle
\* The folder a /serve request asks to serve: its second word, or the folder
\* served last (the default where none was), unquoted.
ServeFolderOf(user_input, m) ==
    LET parts == Split(Strip(user_input))
    IN  Unquote(IF Len(parts) = 1
                THEN Or(Get(m, "last_served_folder", NoneVal), DefaultFolder)
                ELSE parts[2])

\* A step that serves a /serve request asking to start a server.
ServeStartStep ==
    /\ nreq' = nreq + 1
    /\ last'.branch \in {"serve_start", "serve_last"}

\* A step that serves /serve stop.
ServeStopStep ==
    /\ nreq' = nreq + 1
    /\ last'.branch = "serve_stop"

\* The result of a start that spawned the server: the handle is the new process,
\* which is alive, and the result announces it.
Started ==
    /\ last'.calls = <<"Popen">>
    /\ \/ /\ server_process' = nreq'
          /\ processes' = processes \cup {nreq'}
          /\ StartsWith(last'.out, <<"Serving '">>)
       \/ /\ server_process' = NoHandle
          /\ processes' = processes
          /\ StartsWith(last'.out, <<"Failed to start server: ">>)

\* C11: a start while the server of an earlier start is running is rejected,
\* spawns nothing and leaves that first process as the handle; a start that
\* follows a serve stop is accepted: it spawns the server, and the handle is
\* the new process unless the spawn itself fails.
C11_SecondStartRejected ==
    [][
        /\ (ServeStartStep /\ server_process \in processes) =>
             /\ last'.out \in {AlreadyRunningMsg,
                               <<"Folder not found: ">> \o ServeFolderOf(last'.input, memory)}
             /\ (ServeFolderOf(last'.input, memory) \in Directories
                    => last'.out = AlreadyRunningMsg)
             /\ last'.calls = <<>>
             /\ server_process' = server_process
             /\ processes' = processes
        /\ (ServeStartStep /\ last.branch = "serve_stop"
               /\ ServeFolderOf(last'.input, memory) \in Directories) => Started
    ]_vars

\* A second start was rejected while the process of the first is the handle.
C11_Witness ==
    /\ last.branch \in {"serve_start", "serve_last"}
    /\ last.out = AlreadyRunningMsg
    /\ last.prev_route = "serve"
    /\ server_process \in processes
    /\ server_process < nreq

\* C12: serve stop with no server running (none started, already stopped, or
\* the process exited by itself) signals no process, returns the informational
\* message and leaves the handle absent; after any stop the handle is absent,
\* so a second stop in a row is such a no-op; and a start after the process
\* exited by itself is accepted without a stop.
C12_StopIdle ==
    [][
        /\ (ServeStopStep /\ server_process \notin processes) =>
             /\ last'.out = NoServerMsg
             /\ ~last'.raised
             /\ last'.calls = <<>>
             /\ server_process' = NoHandle
             /\ processes' = processes
        /\ ServeStopStep => server_process' = NoHandle
        /\ (ServeStopStep /\ last.branch = "serve_stop") => last'.out = NoServerMsg
        /\ (ServeStartStep /\ server_process # NoHandle /\ server_process \notin processes
               /\ ServeFolderOf(last'.input, memory) \in Directories) => Started
    ]_vars

\* A stop found the handle of a server that had exited by itself.
C12_Witness ==
    /\ last.branch = "serve_stop"
    /\ last.out = NoServerMsg
    /\ "last_served_folder" \in DOMAIN memory
    /\ last.prev_route = "serve"
    /\ nreq = 2
    /\ server_process = NoHandle
    /\ processes = {}


\* ------------------------------------------------- overlapping requests
\* No worker is inside process_request.
Quiescent == \A t \in Workers : threads[t].pc \in {"idle", "done"}

\* The workers inside process_request.
Running == {t \in Workers : threads[t].pc \notin {"idle", "done"}}

\* C13: when /serve requests on the same session overlap, once they have
\* returned at most one server process is alive, and every live server process
\* is the one the session's handle refers to.
C13_OneServerProcess ==
    Quiescent =>
        /\ Cardinality(processes) <= 1
        /\ \A p \in processes : server_process = p

\* C14: access to the pending command is serialized: a worker executes the
\* pending command only if no other worker has executed it, and never after a
\* /cancel of another worker has returned the result that it was canceled.
C14_PendingSerialized ==
    [][\A t \in Workers :
          threads'[t].ran # threads[t].ran =>
              \A w \in Workers \ {t} :
                  /\ threads[w].ran = <<>>
                  /\ ~(threads[w].pc = "done" /\ threads[w].response = CanceledMsg)]_vars

\* C15: a request is processed only after the prior one completes: at most
\* one worker is inside process_request at any time.
C15_OneRequestAtATime == Cardinality(Running) <= 1

\* C16: no append is lost under overlapping requests: once they have returned,
\* the history is the max_history most recent of all the entries appended, in
\* the order of their appends, and so within the cap.
C16_NoAppendLost ==
    Quiescent =>
        /\ chat_history = LastSlice(log, max_history)
        /\ Len(chat_history) <= max_history


\* ---------------------------------------------------- plans and replies
\* The planning path has run; its effects and result.
Planned == plan_out # <<>>

\* The actions of the plan the planner answered with.
ActionsOf(planned) == Get(planned.plan, "actions", <<>>)

\* The texts joined by newlines.
RECURSIVE Joined(_)
Joined(texts) ==
    IF Len(texts) = 0 THEN <<>>
    ELSE IF Len(texts) = 1 THEN texts[1]
    ELSE Joined(SubSeq(texts, 1, Len(texts) - 1)) \o <<"\n">> \o texts[Len(texts)]

\* The non-empty texts of the actions, in listed order.
ReplyTextsOf(actions) ==
    SelectSeq([i \in 1..Len(actions) |-> Get(actions[i], "text", <<>>)],
              LAMBDA t : t # <<>>)

OnlyReplies(planned) ==
    /\ IsPlan(planned)
    /\ \A i \in 1..Len(ActionsOf(planned)) :
          Get(ActionsOf(planned)[i], "tool", NoneVal) = <<"reply">>

\* C17: a plan made only of reply actions executes to their non-empty texts in
\* listed order joined by newlines, and is the result of the request; the plan
\* of the one reply "hello" executes to exactly "hello".
C17_RepliesJoined ==
    (Planned /\ OnlyReplies(plan_in.planned)) =>
        /\ plan_out[1].branch = "executed_plan"
        /\ ~plan_out[1].raised
        /\ plan_out[1].out = Joined(ReplyTextsOf(ActionsOf(plan_in.planned)))
        /\ ActionsOf(plan_in.planned) = <<[tool |-> <<"reply">>, text |-> Hello]>>
              => plan_out[1].out = Hello

\* A plan of three replies, the middle one empty, was executed.
C17_Witness ==
    /\ Planned
    /\ ActionsOf(plan_in.planned) = <<[tool |-> <<"reply">>, text |-> World],
                                      [tool |-> <<"reply">>, text |-> <<>>],
                                      [tool |-> <<"reply">>, text |-> Hello]>>
    /\ plan_out[1].out = World \o <<"\n">> \o Hello

\* The inline error of an invalid action: an unknown tool, or a tool without
\* its required field; <<>> for a valid action.
InlineError(action) ==
    LET tool == Get(action, "tool", NoneVal)
    IN  IF tool = <<"create_file">>
        THEN IF Falsy(Get(action, "path", NoneVal)) THEN <<"create_file missing 'path'">> ELSE <<>>
        ELSE IF tool = <<"run_command">>
        THEN IF Falsy(Get(action, "command", NoneVal)) THEN <<"run_command missing 'command'">> ELSE <<>>
        ELSE IF tool = <<"web_search">>
        THEN IF Falsy(Get(action, "query", NoneVal)) THEN <<"web_search missing 'query'">> ELSE <<>>
        ELSE IF tool = <<"reply">> THEN <<>>
        ELSE <<"Unknown tool in plan: ">> \o tool

\* The result of a valid action, given what its tool did.
ValidResult(action) ==
    LET tool == Get(action, "tool", NoneVal)
    IN  IF tool = <<"create_file">> THEN CreateFileOut(action.path, plan_in.writing)
        ELSE IF tool = <<"run_command">> THEN RunCommandOut(action.command, plan_in.proc)
        ELSE IF tool = <<"web_search">> THEN WebSearchOut(action.query, plan_in.searching)
        ELSE Get(action, "text", <<>>)

\* C18: no action failure aborts the rest of a plan: wherever an invalid
\* action stands, the result holds its inline error, and the result of every
\* valid action of the plan, those after the invalid one included; the valid
\* commands are all run and the valid files all written.
C18_FailSoft ==
    (Planned /\ IsPlan(plan_in.planned)) =>
        LET actions == ActionsOf(plan_in.planned)
        IN  /\ plan_out[1].branch = "executed_plan"
            /\ ~plan_out[1].raised
            /\ \A i \in 1..Len(actions) :
                  IF InlineError(actions[i]) # <<>>
                  THEN ContainsText(plan_out[1].out, InlineError(actions[i]))
                  ELSE /\ ContainsText(plan_out[1].out, ValidResult(actions[i]))
                       /\ Get(actions[i], "tool", NoneVal) = <<"run_command">>
                             => \E k \in 1..Len(plan_out[1].ran) :
                                   plan_out[1].ran[k] = actions[i].command
                       /\ (Get(actions[i], "tool", NoneVal) = <<"create_file">>
                              /\ plan_in.writing = "written")
                             => \E k \in 1..Len(plan_out[1].wrote) :
                                   plan_out[1].wrote[k] = actions[i].path

\* A create_file without path, then a command and a reply, were executed.
C18_Witness ==
    /\ Planned
    /\ ActionsOf(plan_in.planned) = <<[tool |-> <<"create_file">>, content |-> Hello],
                                      [tool |-> <<"run_command">>, command |-> Dir],
                                      [tool |-> <<"reply">>, text |-> Hello]>>
    /\ plan_in.proc = "timeout"
    /\ plan_out[1].out = <<"create_file missing 'path'", "\n", "Command timed out: ">> \o Dir
                            \o <<"\n">> \o Hello
    /\ plan_out[1].ran = <<Dir>>

\* C19: planner output whose trimmed form does not begin with "{" raises
\* nothing and is the plain reply, verbatim: the request's response is that
\* text.
C19_TextIsTheReply ==
    (/\ Planned
     /\ plan_in.planned.kind = "text"
     /\ ~StartsWith(Strip(plan_in.planned.raw), <<"{">>)) =>
        /\ ~plan_out[1].raised
        /\ plan_out[1].out \in {plan_in.planned.raw, Strip(plan_in.planned.raw)}

\* C19, amended: planner output whose trimmed form does not begin with "{"
\* raises nothing in plan parsing and takes the plain-reply path: no plan action
\* is executed, the planner's text is dropped and the primary model is asked;
\* its answer is the request's response, and where it fails the response is
\* the session's error text.
C19_TextTakesReplyPath ==
    (/\ Planned
     /\ plan_in.planned.kind = "text"
     /\ ~StartsWith(Strip(plan_in.planned.raw), <<"{">>)) =>
        /\ plan_out[1].invoked = <<"planner", "primary">>
        /\ plan_out[1].ran = <<>>
        /\ plan_out[1].wrote = <<>>
        /\ "last_action" \notin DOMAIN plan_out[1].memory
        /\ IF plan_in.reply.kind = "raise"
           THEN /\ plan_out[1].branch = "reply_error"
                /\ plan_out[1].out = <<"Error processing request: ">> \o plan_in.reply.raw
           ELSE /\ plan_out[1].branch = "reply"
                /\ ~plan_out[1].raised
                /\ plan_out[1].out = plan_in.reply.raw

\* The planner answered with a sentence and the primary model with another.
C19_Witness ==
    /\ Planned
    /\ plan_in.planned.raw = <<"Sure, here's your answer.">>
    /\ plan_out[1].branch = "reply"
    /\ plan_out[1].out = <<"H", "i", "!">>
    /\ plan_out[1].out # plan_in.planned.raw

\* C20: planner output that begins with "{" but does not parse, or parses to
\* an object whose type is not "plan", takes the plain-reply path: no plan
\* action is executed, last_action is not set, the primary model is asked, and
\* no parse exception reaches the caller (the only error that can is the
\* primary model's).
C20_NotAPlanFallsThrough ==
    (/\ Planned
     /\ plan_in.planned.kind = "text"
     /\ StartsWith(Strip(plan_in.planned.raw), <<"{">>)
     /\ ~IsPlan(plan_in.planned)) =>
        /\ plan_out[1].branch \in {"reply", "reply_error"}
        /\ plan_out[1].ran = <<>>
        /\ plan_out[1].wrote = <<>>
        /\ "last_action" \notin DOMAIN plan_out[1].memory
        /\ plan_out[1].invoked = <<"planner", "primary">>
        /\ IF plan_in.reply.kind = "raise"
           THEN plan_out[1].raised /\ plan_out[1].out = <<"Error processing request: ">> \o plan_in.reply.raw
           ELSE ~plan_out[1].raised /\ plan_out[1].out = plan_in.reply.raw

\* A JSON object of another type was answered by the primary model.
C20_Witness ==
    /\ Planned
    /\ plan_in.planned.json = "object"
    /\ Get(plan_in.planned.plan, "type", NoneVal) = <<"note">>
    /\ plan_out[1].branch = "reply"
    /\ plan_out[1].out = <<"H", "i", "!">>

\* C21: whenever the planner's output parses to an object of type "plan", the
\* plan is executed, "executed_plan" is recorded as the last action, and the
\* aggregated result is the response, whatever the actions list holds; the
\* request does not go on into the plain reply after plan actions have run.
C21_PlanAlwaysExecuted ==
    (Planned /\ IsPlan(plan_in.planned)) =>
        /\ plan_out[1].branch = "executed_plan"
        /\ ~plan_out[1].aborted
        /\ Get(plan_out[1].memory, "last_action", NoneVal) = <<"executed_plan">>
        /\ plan_out[1].invoked = <<"planner">>

\* C22: a request that matches a directive invokes no model; any other request
\* invokes the planner exactly once, and the primary model, once, only when
\* the planner produced no plan.
C22_RequestStateMachine ==
    (nreq > 0) =>
        IF last.route # "plan"
        THEN last.invoked = <<>>
        ELSE /\ last.invoked \in {<<"planner">>, <<"planner", "primary">>}
             /\ (last.invoked = <<"planner", "primary">>) =>
                    /\ ~last.aborted
                    /\ last.branch \in {"reply", "reply_error"}
             /\ (last.branch = "executed_plan") => (last.invoked = <<"planner">>)

\* A request was served in this step and something in it failed: an exception
\* reached the catch-all of process_request, or the plan executor raised.
FailingRequest ==
    /\ nreq' = nreq + 1
    /\ last'.raised \/ last'.aborted

\* C23: process_request never raises: a failure during routing, planning, plan
\* execution or reply is returned as the error string of the request, and the
\* pending command, the server handle and the model selection are after the
\* failing request what they were before it.
C23_FailuresReturned ==
    [][
        FailingRequest =>
            /\ StartsWith(last'.out, <<"Error processing request: ">>)
            /\ UNCHANGED <<pending_command, pending_command_reason, server_process,
                           processes, model_name, planner_model_name>>
    ]_vars

\* RunCommandTool._run of tools.py: the text it returns for each outcome.
RunCommandToolRun(command, outcome) ==
    CASE outcome = "exit" -> <<"Exit code: ", "returncode", "\n", "stdout, stderr">>
      [] outcome = "timeout" -> <<"Command timed out after 30 seconds">>
      [] OTHER -> <<"Error running command: ", "OSError">>

\* run_terminal_command of mcp_server.py: the dictionary it returns.
RunTerminalCommand(command, outcome) ==
    CASE outcome = "exit" ->
            [command |-> command, exit_code |-> <<"returncode">>, success |-> {TRUE, FALSE}]
      [] outcome = "timeout" ->
            [command |-> command, error |-> <<"Command timed out after 30 seconds">>,
             success |-> {FALSE}]
      [] OTHER -> [command |-> command, error |-> <<"OSError">>, success |-> {FALSE}]

\* The result of a command says it timed out, and says nothing else.
TimeoutResult(command) ==
    /\ RunCommandOut(command, "timeout") = <<"Command timed out: ">> \o command
    /\ RunCommandOut(command, "timeout")
          \notin {RunCommandOut(command, "exit"), RunCommandOut(command, "oserror")}
    /\ RunCommandToolRun(command, "timeout")
          \notin {RunCommandToolRun(command, "exit"), RunCommandToolRun(command, "oserror")}
    /\ "exit_code" \notin DOMAIN RunTerminalCommand(command, "timeout")
    /\ RunTerminalCommand(command, "timeout") # RunTerminalCommand(command, "oserror")

\* C24: a command that does not end within the timeout yields a result that
\* says so, unlike a result with an exit code and unlike a failure to run, and
\* the plan it stands in goes on with the actions after it.
C24_TimeoutIsAResult ==
    (Planned /\ IsPlan(plan_in.planned) /\ ~Aborts(plan_in.planned)
        /\ plan_in.proc = "timeout") =>
        LET actions == ActionsOf(plan_in.planned)
        IN  \A i \in 1..Len(actions) :
               (/\ Get(actions[i], "tool", NoneVal) = <<"run_command">>
                /\ ~Falsy(Get(actions[i], "command", NoneVal))) =>
                   /\ TimeoutResult(actions[i].command)
                   /\ plan_out[1].branch = "executed_plan"
                   /\ ~plan_out[1].raised
                   /\ ContainsText(plan_out[1].out, <<"Command timed out: ">> \o actions[i].command)
                   /\ ~ContainsText(plan_out[1].out, <<"\nExit code: ">>)
                   /\ ~ContainsText(plan_out[1].out, <<"Failed to run command: ">>)
                   /\ \A j \in (i + 1)..Len(actions) :
                         IF InlineError(actions[j]) # <<>>
                         THEN ContainsText(plan_out[1].out, InlineError(actions[j]))
                         ELSE ContainsText(plan_out[1].out, ValidResult(actions[j]))

\* A command timed out and the reply after it is part of the result.
C24_Witness ==
    /\ Planned
    /\ plan_in.proc = "timeout"
    /\ ActionsOf(plan_in.planned) = <<[tool |-> <<"run_command">>, command |-> Dir],
                                      [tool |-> <<"reply">>, text |-> Hello]>>
    /\ plan_out[1].out = <<"Command timed out: ">> \o Dir \o <<"\n">> \o Hello

\* The file holds what no session wrote: nothing, no JSON, JSON that is no
\* object, or a value of another type than the code stores under its key.
Malformed(file) ==
    \/ file.kind # "json"
    \/ file.value.t # "obj"
    \/ \E k \in DOMAIN file.value.v : file.value.v[k].t # TypeOfKey(k)

\* The session __init__ makes of an empty memory.
DefaultState ==
    /\ memory = EmptyMemory
    /\ chat_history = <<>>
    /\ max_history = DefaultMaxHistory
    /\ model_name = <<"gpt-oss:120b-cloud">>
    /\ planner_model_name = <<"qwen3-coder:480b-cloud">>

\* C25: startup never crashes on the persisted state: on an absent file, on a
\* file that is no valid JSON, and on valid JSON of an unexpected shape or
\* with values of unexpected types, the session starts in the default state.
C25_StartupNeverCrashes ==
    /\ session # "crashed"
    /\ (session = "up" /\ nreq = 0 /\ last.route = "none" /\ Malformed(memory_file))
          => DefaultState

\* The dict without the history: the model selection and the preferences.
Preferences(m) == [k \in DOMAIN m \ {"chat_history"} |-> m[k]]

\* The process is started again in this step.
RestartStep ==
    /\ last.route # "restart"
    /\ last'.route = "restart"

\* C26: the state round-trips through the file: whatever requests were served,
\* the restarted session has the model names, the preferences and the chat
\* history the running session had, for every configured max_history.
C26_RoundTrip ==
    [][
        RestartStep =>
            /\ session' = "up"
            /\ model_name' = model_name
            /\ planner_model_name' = planner_model_name
            /\ Preferences(memory') = Preferences(memory)
            /\ chat_history' = chat_history
    ]_vars

\* The query of a /memories request: the text after the keyword, trimmed.
MemoriesArg(user_input) == Strip(Drop(Strip(user_input), 9))

\* The queries rag_query is called with: those of the /memories requests, the
\* requests themselves (k = 3 on the planning path), blanks and None.
Queries ==
    {MemoriesArg(u) : u \in InputsOf("memories")} \cup InputsOf("plan")
    \cup {<<>>, <<" ", "\t">>, NoneVal}

\* Nothing can be retrieved for the query: the collection is empty or not
\* available, retrieval is off, the query is blank, or it has no embedding.
NothingToRetrieve(q, embed) ==
    \/ rag_docs = <<>>
    \/ ~chroma_available
    \/ ~RagEnabled(memory)
    \/ q = NoneVal
    \/ Strip(q) = <<>>
    \/ embed = "none"

\* C27 as stated: whenever nothing can be retrieved, /memories answers with
\* the no-relevant-memories message.
C27_EmptyThenNoMemories ==
    \A embed \in EmbedOutcomes, u \in InputsOf("memories") :
        NothingToRetrieve(MemoriesArg(u), embed) =>
            MemoriesDirective(Start(u), u, embed).out = <<"No relevant memories found.">>

\* C27: a retrieval query never raises and returns the empty list whenever
\* nothing can be retrieved; /memories with a query then answers with the
\* no-relevant-memories message, and /memories without one with its usage.
C27_NothingRetrieved ==
    /\ (last.route = "memories") => ~last.raised
    /\ \A embed \in EmbedOutcomes :
          /\ \A q \in Queries, k \in {3, MemoriesK} :
                NothingToRetrieve(q, embed) => RagQuery(Base(memory), q, k, embed) = <<>>
          /\ \A u \in InputsOf("memories") :
                LET r == MemoriesDirective(Start(u), u, embed)
                IN  /\ ~r.raised
                    /\ r.rag = rag_docs
                    /\ IF MemoriesArg(u) = <<>>
                       THEN r.out = <<"Usage: /memories <query>">>
                       ELSE NothingToRetrieve(MemoriesArg(u), embed)
                               => r.out = <<"No relevant memories found.">>

\* /memories with a query found nothing although the collection holds an entry.
C27_Witness ==
    /\ last.route = "memories"
    /\ last.out = <<"No relevant memories found.">>
    /\ rag_docs # <<>>

\* A request was served in this step.
RequestStep == nreq' = nreq + 1

\* The entry a plain reply stores: the question and the answer.
ChatEntry ==
    [text |-> Strip(<<"USER: ">> \o last'.input \o <<"\nASSISTANT: ">> \o last'.out),
     type |-> "chat"]

\* The entry /remember stores: its argument.
ManualEntry ==
    [text |-> Strip(Drop(Strip(last'.input), 10)), type |-> "manual"]

NameArg(user_input, keyword) == Strip(Drop(Strip(user_input), Len(keyword)))

\* C29: /model <name> sets and persists the primary model and leaves the
\* planner model as it is, /planner <name> sets and persists the planner model
\* and leaves the primary model as it is, the show and list forms change
\* neither, and every invocation uses the models selected at that time.
C29_ModelsIndependent ==
    [][
        RequestStep =>
            /\ (last'.branch = "model_set") =>
                  /\ model_name' = NameArg(last'.input, kwModelSp)
                  /\ Get(memory', "model_name", NoneVal) = model_name'
                  /\ memory_file' = Dump(memory')
                  /\ planner_model_name' = planner_model_name
                  /\ Get(memory', "planner_model_name", NoneVal)
                        = Get(memory, "planner_model_name", NoneVal)
            /\ (last'.branch = "planner_set") =>
                  /\ planner_model_name' = NameArg(last'.input, kwPlannerSp)
                  /\ Get(memory', "planner_model_name", NoneVal) = planner_model_name'
                  /\ memory_file' = Dump(memory')
                  /\ model_name' = model_name
                  /\ Get(memory', "model_name", NoneVal) = Get(memory, "model_name", NoneVal)
            /\ (last'.branch \notin {"model_set", "planner_set"}) =>
                  /\ UNCHANGED <<model_name, planner_model_name>>
                  /\ Get(memory', "model_name", NoneVal) = Get(memory, "model_name", NoneVal)
                  /\ Get(memory', "planner_model_name", NoneVal)
                        = Get(memory, "planner_model_name", NoneVal)
            /\ (Len(last'.used) >= 1) => (last'.used[1] = planner_model_name)
            /\ (Len(last'.used) = 2) => (last'.used[2] = model_name)
            /\ Len(last'.used) = Len(last'.invoked)
    ]_vars

\* Both models were switched, and the request after that invoked both.
C29_Witness ==
    /\ last.invoked = <<"planner", "primary">>
    /\ last.used = <<<<"p", "2">>, <<"m", "2">>>>
    /\ Get(memory, "model_name", NoneVal) = <<"m", "2">>
    /\ Get(memory, "planner_model_name", NoneVal) = <<"p", "2">>

\* The last-used preferences: the folder and the port the dict holds.
ServePrefs(m) ==
    <<Get(m, "last_served_folder", NoneVal), Get(m, "last_served_port", NoneVal)>>

\* The port a /serve request asks for: its third word, the default where it
\* has a folder only, and the port served last (or the default) where bare.
ServePortOf(user_input, m) ==
    LET parts == Split(Strip(user_input))
    IN  IF Len(parts) = 1 THEN ParseInt(Or(Get(m, "last_served_port", NoneVal), DefaultPort))
        ELSE IF Len(parts) >= 3 THEN ParseInt(parts[3])
        ELSE DefaultPort

\* The request of this step asked to start a server and the server was spawned.
Spawned ==
    /\ last'.route = "serve"
    /\ StartsWith(last'.out, <<"Serving '">>)

\* What a start that spawned leaves: the result names the folder and the port
\* asked for, which are the preferences from then on.
SpawnedAsAsked ==
    /\ last'.out = <<"Serving '">> \o ServeFolderOf(last'.input, memory)
                      \o <<"' on http://localhost:">> \o ServePortOf(last'.input, memory)
                      \o <<"\n", "Stop with: /serve stop">>
    /\ ServePrefs(memory') = <<ServeFolderOf(last'.input, memory),
                               ServePortOf(last'.input, memory)>>
    /\ server_process' = nreq'

EffectOf(action) ==
    LET tool == Get(action, "tool", NoneVal)
    IN  IF tool = <<"create_file">> /\ ~Falsy(Get(action, "path", NoneVal))
        THEN << <<"create_file", action.path>> >>
        ELSE IF tool = <<"run_command">> /\ ~Falsy(Get(action, "command", NoneVal))
        THEN << <<"run_command", action.command>> >>
        ELSE IF tool = <<"web_search">> /\ ~Falsy(Get(action, "query", NoneVal))
                /\ ~Falsy(tavily_api_key)
        THEN << <<"web_search", action.query>> >>
        ELSE <<>>

RECURSIVE EffectsInOrder(_)
EffectsInOrder(actions) ==
    IF actions = <<>> THEN <<>>
    ELSE EffectOf(Head(actions)) \o EffectsInOrder(Tail(actions))

\* The request was answered and the planner's answer was a plan.
PlanAnswered == plan_out # <<>> /\ IsPlan(plan_in.planned)

\* C31: the executor processes each action of every finite plan exactly once
\* and in the listed order: the calls it makes to the file system, the shell
\* and the search provider are those of the plan's actions, one per action
\* that makes a call, in list order.
C31_EachActionOnceInOrder ==
    PlanAnswered =>
        plan_out[1].effects = EffectsInOrder(plan_in.planned.plan.actions)

\* The same for the plans whose elements are all JSON objects.
C31_ObjectPlansInOrder ==
    (PlanAnswered /\ ~Aborts(plan_in.planned)) =>
        plan_out[1].effects = EffectsInOrder(plan_in.planned.plan.actions)

\* ------------------------------------------------------------------- C32
\* The fields a tool requires.
RequiredField == [create_file |-> "path", run_command |-> "command", web_search |-> "query"]

\* The error entry of a tool whose required field is missing.
MissingFieldError ==
    [create_file |-> <<"create_file missing 'path'">>,
     run_command |-> <<"run_command missing 'command'">>,
     web_search  |-> <<"web_search missing 'query'">>]

KnownTool(action) ==
    Get(action, "tool", NoneVal) \in {<<"create_file">>, <<"run_command">>, <<"web_search">>}

MissingField(action) ==
    KnownTool(action) /\ Falsy(Get(action, RequiredField[action.tool[1]], NoneVal))

UnknownTool(action) ==
    ~KnownTool(action) /\ Get(action, "tool", NoneVal) # <<"reply">>

EmptyReply(action) ==
    Get(action, "tool", NoneVal) = <<"reply">> /\ Falsy(Get(action, "text", <<>>))

\* The result entry of one action under the outcomes of the request.
EntryOf(action) ==
    IF Get(action, "tool", NoneVal) = <<"reply">> THEN Get(action, "text", <<>>)
    ELSE IF UnknownTool(action)
    THEN <<"Unknown tool in plan: ">> \o Get(action, "tool", NoneVal)
    ELSE IF MissingField(action)
    THEN MissingFieldError[action.tool[1]]
    ELSE IF action.tool = <<"create_file">> THEN CreateFileOut(action.path, plan_in.writing)
    ELSE IF action.tool = <<"run_command">> THEN RunCommandOut(action.command, plan_in.proc)
    ELSE WebSearchOut(action.query, plan_in.searching)

\* Texts joined by a newline.
RECURSIVE NewlineJoined(_)
NewlineJoined(texts) ==
    IF texts = <<>> THEN <<>>
    ELSE IF Len(texts) = 1 THEN texts[1]
    ELSE texts[1] \o <<"\n">> \o NewlineJoined(Tail(texts))

NonEmptyText(t) == t # <<>>

\* The argument of the call a well-formed tool action makes.
CallArg(action) ==
    IF KnownTool(action) THEN Get(action, RequiredField[action.tool[1]], NoneVal) ELSE NoneVal

\* The calls of the actions that are neither an empty or non-empty reply, nor
\* an unknown tool, nor without their required field (a search makes its call
\* when the provider is configured).
MakesCall(call) ==
    /\ call[1] \in {"create_file", "run_command", "web_search"}
    /\ ~Falsy(call[2])
    /\ (call[1] = "web_search" => ~Falsy(tavily_api_key))

\* The executor returned the result of the plan.
PlanExecuted == PlanAnswered /\ ~plan_out[1].aborted

\* C32: the result of an executed plan is exactly the non-empty results of its
\* actions joined by a newline, where a reply with empty text has no entry, an
\* unknown tool has one unknown-tool error entry and an action without its
\* required field has one error entry; these three make no call to the file
\* system, the shell or the search provider.
C32_ResultIsJoinedEntries ==
    PlanExecuted =>
        LET actions == plan_in.planned.plan.actions
            entries == [i \in DOMAIN actions |-> EntryOf(actions[i])]
        IN  /\ plan_out[1].out = NewlineJoined(SelectSeq(entries, NonEmptyText))
            /\ ~plan_out[1].raised
            /\ plan_out[1].effects =
                  SelectSeq([i \in DOMAIN actions |-> <<Get(actions[i], "tool", NoneVal)[1], CallArg(actions[i])>>],
                            MakesCall)

\* A plan with an empty reply, an unknown tool and a run_command without its
\* command was executed: two error entries and no call.
C32_Witness ==
    /\ PlanExecuted
    /\ plan_in.planned.plan.actions =
          << [tool |-> <<"reply">>, text |-> <<>>], [tool |-> <<"zip">>],
             [tool |-> <<"run_command">>] >>
    /\ plan_out[1].out = <<"Unknown tool in plan: ", "zip", "\n", "run_command missing 'command'">>
    /\ plan_out[1].effects = <<>>

\* ------------------------------------------------------------------- C33
\* s is what remains of t after entries were dropped from its front.
IsSuffixOf(s, t) ==
    /\ Len(s) <= Len(t)
    /\ \A i \in 1..Len(s) : s[i] = t[Len(t) - Len(s) + i]

\* The number of entries a history under this max_history holds after entries
\* were appended to make n: max_history 0 drops nothing.
KeptOf(n) == IF max_history = 0 \/ n <= max_history THEN n ELSE max_history

\* The history entries the request of this step appended: its input and, when
\* it returned no error string, its response.
AppendedBy(input, response, failed) ==
    IF failed THEN <<Entry("user", input)>>
    ELSE <<Entry("user", input), Entry("assistant", response)>>

\* C33: a request that returns without an error appends exactly two history
\* entries, its input as the user entry and then its response as the assistant
\* entry, on every path (directive, executed plan, plain reply); a request that
\* returns the error string appends its user entry and no assistant entry.
\* The history after the request is the old history followed by these entries,
\* less what max_history drops from the front.
C33_TwoEntriesPerRequest ==
    [][
        RequestStep =>
            LET failed == StartsWith(last'.out, <<"Error processing request: ">>)
                full == chat_history \o AppendedBy(last'.input, last'.out, failed)
            IN  /\ failed = last'.raised
                /\ IsSuffixOf(chat_history', full)
                /\ Len(chat_history') = KeptOf(Len(full))
    ]_vars

\* An executed plan's result is the assistant entry behind the request's user
\* entry, after an earlier request of the session.
C33_Witness ==
    /\ last.branch = "executed_plan"
    /\ ~last.raised
    /\ max_history = DefaultMaxHistory
    /\ Len(chat_history) >= 4
    /\ chat_history[Len(chat_history) - 1] = Entry("user", last.input)
    /\ chat_history[Len(chat_history)] = Entry("assistant", last.out)

\* ------------------------------------------------------------------- C34
\* The keyword of a directive that takes an argument, with nothing behind it.
BareKeyword(input) ==
    Strip(input) \in {Strip(kwRunSp), Strip(kwOpenSp), Strip(kwRememberSp),
                      Strip(kwSearchSp), Strip(kwModelSp)}

\* C34: an input that is a directive keyword without its argument (/run,
\* /open, /remember, /search, /model) is answered by the router and is never
\* sent to the planner or the primary model.
C34_BareKeywordStaysInRouter ==
    (plan_out # <<>> /\ BareKeyword(plan_in.user_input)) => plan_out[1].invoked = <<>>

\* ------------------------------------------------------------------- C37
\* The step is an /open request whose file was read.
PreviewStep == RequestStep /\ last'.branch = "open" /\ last'.read.kind = "text"

\* C37: the file preview is bounded and read-only.  For every file that was
\* read, the text /open returns is the first characters of the file, at most
\* 8000 of them, followed by the truncation marker when the file has more; it
\* is the whole text when the file has at most 8000 characters; and the request
\* writes no file, runs no command and leaves the pending command, the server
\* handle and both model selections as they were.
C37_PreviewBoundedReadOnly ==
    [][
        PreviewStep =>
            LET n == last'.read.len
                shown == IF n <= 8000 THEN n ELSE 8000
            IN  /\ SubSeq(last'.out, 1, 3) = FirstChars(shown)
                /\ (n <= 8000 => last'.out = FirstChars(n))
                /\ (n > 8000 => last'.out = FirstChars(8000) \o TruncationMarker)
                /\ last'.wrote = <<>>
                /\ last'.ran = <<>>
                /\ UNCHANGED <<pending_command, pending_command_reason, server_process,
                               processes, model_name, planner_model_name, llm, planner_llm>>
    ]_vars

\* A file of 8001 characters was previewed while a command was pending and a
\* server was running: 8000 characters and the marker came back.
C37_Witness ==
    /\ last.branch = "open"
    /\ last.read = [kind |-> "text", len |-> 8001]
    /\ last.out = <<"text[:", "8000", "]", "\n\n... (truncated)">>
    /\ ~Falsy(pending_command)
    /\ server_process \in processes

\* ------------------------------------------------------------------- C35
\* The user_id of the request that queued the command the session starts with.
QueuedBy == UserIdOf[1]

\* The request of worker t ran the pending command or canceled it.
SettledPending(t) ==
    \/ threads[t].ran # <<>>
    \/ threads[t].out = CanceledMsg

\* C35: sessions of different user_id values are isolated: a command queued
\* as pending by a request of one user_id is confirmed or canceled only by a
\* request of the same user_id.
C35_SessionsIsolated ==
    \A t \in Workers : SettledPending(t) => threads[t].user_id = QueuedBy

\* ------------------------------------------------------------------- C36
NotConfiguredMsg == <<"Tavily API key not configured. Web search is not available.">>

\* The text holds the line.
HasLine(text, line) == \E i \in DOMAIN text : text[i] = line

\* The plan of PlannerOutputs whose web_search action is followed by another
\* action was executed: its result ends with the entry of that action.
SearchThenNextAction(out) ==
    /\ Len(out) >= 4
    /\ SubSeq(out, Len(out) - 3, Len(out)) =
          NotConfiguredMsg \o <<"\n", "Unknown tool in plan: ", "zip">>

\* C36: on a host without search credentials a web search makes no call to
\* the provider and yields the not-configured result instead of raising: the
\* /search directive answers with it, and a web_search action of a plan
\* contributes it as its entry, after which the remaining actions of the plan
\* are processed.
C36_SearchDegradesGracefully ==
    [][
        (RequestStep /\ Falsy(tavily_api_key)) =>
            /\ \A i \in DOMAIN last'.effects : last'.effects[i][1] # "web_search"
            /\ ~HasLine(last'.out, "Web search failed: ")
            /\ ~HasLine(last'.out, "Web Search Results for: '")
            /\ (last'.branch = "search" => (last'.out = NotConfiguredMsg /\ ~last'.raised))
            /\ ((last'.branch = "executed_plan" /\ HasLine(last'.out, NotConfiguredMsg[1]))
                   => (SearchThenNextAction(last'.out) /\ ~last'.raised))
    ]_vars

\* A plan with a web_search action was executed on the host without
\* credentials: its entry is the not-configured result and the action
\* behind it left its entry too.
C36_Witness ==
    /\ Falsy(tavily_api_key)
    /\ last.branch = "executed_plan"
    /\ last.effects = << <<"create_file", NotesFile>> >>
    /\ SearchThenNextAction(last.out)

\* ------------------------------------------------------------------- C39
\* The tool server has answered the request.
ToolAnswered == tool_resp # <<>>

\* The request reached the _run of one of the three tools.
ToolRan ==
    /\ "garbage" \notin DOMAIN tool_req.body
    /\ tool_req.body.name \in {"ls", "read_file", "grep"}
    /\ (tool_req.body.name = "read_file" =>
            "args" \in DOMAIN tool_req.body /\ "path" \in DOMAIN tool_req.body.args)
    /\ (tool_req.body.name = "grep" => "pattern" \in DOMAIN tool_req.body.args)

\* The path the request names (ls and grep take "." where none is given).
RequestedPath ==
    LET args == IF "args" \in DOMAIN tool_req.body THEN tool_req.body.args ELSE <<>>
        given == IF tool_req.body.name = "grep" THEN Get(args, "root", <<".">>)
                 ELSE Get(args, "path", <<".">>)
    IN  IF given = <<>> /\ tool_req.body.name # "read_file" THEN <<".">> ELSE given

\* The host path p is an allow-listed directory or lies below one.
InAllowedDir(p) ==
    \E i \in DOMAIN tool_req.cfg.allow_dirs :
        LET base == Resolve(tool_req.cfg.allow_dirs[i])
        IN  \E k \in 0..Len(p) : SubSeq(p, 1, k) = base

\* The body carries what the file system holds.
HasContent(body) == DOMAIN body \cap {"items", "content", "matches"} # {}

\* C39: the tool server returns file system content only when enable_fs is
\* true and the resolved requested path is an allow-listed directory or lies
\* under one; with enable_fs false every call of ls, read_file and grep returns
\* the fs_disabled error; with enable_fs true a path outside every allow-listed
\* directory returns path_not_allowed; and every output that carries an error
\* is answered with HTTP status 400.
C39_ContentOnlyFromAllowedDirs ==
    ToolAnswered =>
        LET body == tool_resp[1].body
        IN  /\ HasContent(body) =>
                  /\ tool_req.cfg.enable_fs
                  /\ RequestedPath # <<>>
                  /\ InAllowedDir(Resolve(RequestedPath))
                  /\ ("content" \in DOMAIN body =>
                         body.content = ContentOf(Resolve(RequestedPath)))
            /\ ((ToolRan /\ ~tool_req.cfg.enable_fs) => body = ToolError("fs_disabled"))
            /\ ((ToolRan /\ tool_req.cfg.enable_fs
                   /\ (RequestedPath = <<>> \/ ~InAllowedDir(Resolve(RequestedPath))))
                  => body = ToolError("path_not_allowed"))
            /\ ("error" \in DOMAIN body <=> tool_resp[1].status = 400)
            /\ tool_resp[1].status \in {200, 400}

\* read_file was asked for a path that climbs out of the allow-listed directory
\* with "..": path_not_allowed, status 400.
C39_Witness ==
    /\ ToolAnswered
    /\ tool_req.cfg.enable_fs
    /\ tool_req.cfg.allow_dirs = << Written(DataDir) >>
    /\ tool_req.body = [name |-> "read_file",
                        args |-> [path |-> Written(DataDir \o <<"..", "..", "etc", "passwd">>)]]
    /\ tool_resp[1] = [status |-> 400, body |-> ToolError("path_not_allowed")]

\* ------------------------------------------------------------------- C40
\* The place of an entry in the order of discovery.
DiscoveredAt(p) == CHOOSE k \in DOMAIN tool_req.listing : tool_req.listing[k] = p

\* grep has returned matches.
GrepAnswered == ToolAnswered /\ "matches" \in DOMAIN tool_resp[1].body

\* C40: GrepTool never returns more than max_grep_matches matches, for every
\* tree, order of discovery and configured limit, and returns them in the order
\* of discovery: file by file, and within a file by line number.
C40_GrepBounded ==
    GrepAnswered =>
        LET matches == tool_resp[1].body.matches
        IN  /\ Len(matches) <= tool_req.cfg.max_grep_matches
            /\ \A i, j \in DOMAIN matches :
                  i < j =>
                     \/ DiscoveredAt(matches[i].file) < DiscoveredAt(matches[j].file)
                     \/ /\ matches[i].file = matches[j].file
                        /\ matches[i].line < matches[j].line

\* The limit was reached in the second file that had matches.
C40_Witness ==
    /\ GrepAnswered
    /\ tool_req.cfg.max_grep_matches = 3
    /\ Len(tool_resp[1].body.matches) = 3
    /\ tool_resp[1].body.matches[1].file # tool_resp[1].body.matches[3].file
    /\ tool_resp[1].body.matches[1].line = 1
    /\ tool_resp[1].body.matches[2].line = 3

\* ------------------------------------------------------------------- C38
\* The step is a request that asked the planner.
PlanningStep == RequestStep /\ last'.invoked # <<>>

\* The texts the collection holds before the request.
StoredTexts == {rag_docs[i].text : i \in DOMAIN rag_docs}

\* The smaller of two numbers.
Least(a, b) == IF a <= b THEN a ELSE b

\* C38: the planning context holds the most recent 6 entries of the chat
\* history (all of them when there are fewer) in chronological order, the
\* newest being the request's user entry, and holds retrieved snippets only when
\* retrieval yields results, at most 3 of them; the retrieval for the context
\* asks for k = 3 results and the /memories directive for k = 6.
C38_PlanningContext ==
    [][
        /\ PlanningStep =>
              LET c == last'.context
                  full == chat_history \o <<Entry("user", last'.input)>>
              IN  /\ IsSuffixOf(c.history, full)
                  /\ Len(c.history) = Least(6, KeptOf(Len(full)))
                  /\ c.history[Len(c.history)] = Entry("user", last'.input)
                  /\ ("retrieved_memories" \in DOMAIN c.state <=> last'.retrieved # <<>>)
                  /\ ("retrieved_memories" \in DOMAIN c.state =>
                         /\ c.state.retrieved_memories = last'.retrieved
                         /\ Len(last'.retrieved) = Least(3, Len(rag_docs))
                         /\ \A i \in DOMAIN last'.retrieved : last'.retrieved[i] \in StoredTexts)
        /\ (RequestStep /\ last'.branch = "memories") =>
              /\ Len(last'.retrieved) = Least(6, Len(rag_docs))
              /\ \A i \in DOMAIN last'.retrieved : last'.retrieved[i] \in StoredTexts
    ]_vars

\* The planner was asked in a session whose history had more than 6 entries:
\* its context holds the newest 6, the last being the request.
C38_Witness ==
    /\ last.invoked # <<>>
    /\ Len(chat_history) >= 8
    /\ Len(last.context.history) = 6
    /\ last.context.history[6] = Entry("user", last.input)
    /\ last.context.history[1] = chat_history[Len(chat_history) - Len(last.appended) - 4]

============================================================================
